---- MODULE Spec2Model ----
(***************************************************************************)
(* Model of the extraction-and-matching engine of the BOM backend:         *)
(*   backend/agents/extraction_agent.py  (ExtractionAgent)                 *)
(*   backend/database/item_matcher.py    (ItemMatcher)                     *)
(*                                                                         *)
(* Python strings are sequences of one-character strings, so that          *)
(* lower(), strip(), split(), `in` and f-string formatting are computed    *)
(* character by character.  JSON / dict values are tagged records          *)
(* [kind, b, n, s].  Each component has its own specification; the         *)
(* variables of the other components stay at their idle values.            *)
(***************************************************************************)
EXTENDS Integers, Sequences, FiniteSets, TLC

VARIABLES
    material_data,      \* _classify_material: the dict it is called with
    classify_log,       \* _classify_material: the triples it returned, in call order
    item,               \* matcher: the extracted item (a dict)
    supplier_bom,       \* matcher: the rows of the current supplier table
    kb_matches,         \* matcher: the candidates the knowledge store returned
    supplier_matches,   \* matcher: the result of _find_supplier_matches
    best_match,         \* matcher: the result of _select_best_match
    match_pc,           \* matcher: position in the per-item procedure
    text,               \* chunker: the text to split
    max_chunk_size,     \* chunker: the size limit
    final_chunks,       \* chunker: the list _split_into_extraction_chunks returned
    chunk_seps,         \* chunker: the separator removed at each cut, in order
    chunk_pc,           \* chunker: "start", then "split"
    materials,          \* dedup: the list _deduplicate_materials is called with
    unique_materials,   \* dedup: the list it returned
    unique_again,       \* dedup: what it returned when called on unique_materials
    dedup_pc,           \* dedup: "start", "once", "twice"
    translated_content, \* coordinator: the document body of the run
    gemini_client,      \* coordinator: "none", "unavailable" or "available"
    chunk_outcome,      \* coordinator: per chunk, what its generation call will do
    chunks,             \* coordinator: the chunks of the run
    task_pc,            \* coordinator: per chunk task, "created", "awaiting", "done"
    chunk_results,      \* coordinator: per chunk task, what it returned or raised
    completion_order,   \* coordinator: the chunk indices in order of completion
    all_materials,      \* coordinator: the merged list handed to deduplication
    result,             \* coordinator: the mapping process_translated_content returned
    stats,              \* coordinator: self.stats
    extract_pc,         \* coordinator: "start", "gathering", "done"
    response,           \* decoder: the payload _parse_json_response is called with
    parse_result,       \* decoder: what the call returned (or that it raised)
    parse_pc,           \* decoder: "start", then "parsed"
    materials_data,     \* builder: the decoded records of one chunk
    built_materials,    \* builder: the ExtractedMaterial objects created from them
    build_pc,           \* builder: "start", then "built"
    extracted_items,    \* matching run: the extracted items (dicts)
    kb_add,             \* matching run: whether the store's add_items raises
    kb_find,            \* matching run: per item, what find_similar_items does
    kb_calls,           \* matching run: the calls the run has made to the store, in order
    kb_items,           \* matching run: the items of the run the store holds
    enhanced_matches,   \* matching run: the results appended so far
    run_pc,             \* matching run: "start", "loop", "returned", "raised"
    df,                 \* ingestion: the table read from the supplier file
    bom_items,          \* ingestion: what _extract_bom_items returned
    ingest_pc,          \* ingestion: "start", then "extracted"
    agent_stats,        \* shared coordinator: self.stats of the one instance
    agent_runs,         \* shared coordinator: per run, its position, chunks and report
    upload_requests,    \* upload: per request, the two file names it sends
    upload_dir,         \* upload: the uploads directory, file name to content
    upload_pc,          \* upload: per request, the position of its handler and its task
    upload_read,        \* upload: per request, what its background task read
    confidence_distribution,    \* distribution: the counts returned for materials
    distribution_pc     \* distribution: "start", then "counted"

classifyVars == <<material_data, classify_log>>
matchVars == <<item, supplier_bom, kb_matches, supplier_matches, best_match, match_pc>>
chunkVars == <<text, max_chunk_size, final_chunks, chunk_seps, chunk_pc>>
dedupVars == <<materials, unique_materials, unique_again, dedup_pc>>
extractVars ==
    <<translated_content, gemini_client, chunk_outcome, chunks, task_pc, chunk_results,
      completion_order, all_materials, result, stats, extract_pc>>
parseVars == <<response, parse_result, parse_pc>>
buildVars == <<materials_data, built_materials, build_pc>>
runVars == <<extracted_items, kb_add, kb_find, kb_calls, kb_items, enhanced_matches, run_pc>>
ingestVars == <<df, bom_items, ingest_pc>>
agentVars == <<agent_stats, agent_runs>>
uploadVars == <<upload_requests, upload_dir, upload_pc, upload_read>>
distVars == <<confidence_distribution, distribution_pc>>
vars ==
    <<classifyVars, matchVars, chunkVars, dedupVars, extractVars, parseVars, buildVars,
      runVars, ingestVars, agentVars, uploadVars, distVars>>

\* the variables of the components other than the named one
notClassify ==
    <<matchVars, chunkVars, dedupVars, extractVars, parseVars, buildVars, runVars,
      ingestVars, agentVars, uploadVars, distVars>>
notMatch ==
    <<classifyVars, chunkVars, dedupVars, extractVars, parseVars, buildVars, runVars,
      ingestVars, agentVars, uploadVars, distVars>>
notChunk ==
    <<classifyVars, matchVars, dedupVars, extractVars, parseVars, buildVars, runVars,
      ingestVars, agentVars, uploadVars, distVars>>
notDedup ==
    <<classifyVars, matchVars, chunkVars, extractVars, parseVars, buildVars, runVars,
      ingestVars, agentVars, uploadVars, distVars>>
notExtract ==
    <<classifyVars, matchVars, chunkVars, dedupVars, parseVars, buildVars, runVars,
      ingestVars, agentVars, uploadVars, distVars>>
notParse ==
    <<classifyVars, matchVars, chunkVars, dedupVars, extractVars, buildVars, runVars,
      ingestVars, agentVars, uploadVars, distVars>>
notBuild ==
    <<classifyVars, matchVars, chunkVars, dedupVars, extractVars, parseVars, runVars,
      ingestVars, agentVars, uploadVars, distVars>>
\* the matching run uses the matcher's variables as the locals of its loop
notRun ==
    <<classifyVars, chunkVars, dedupVars, extractVars, parseVars, buildVars,
      ingestVars, agentVars, uploadVars, distVars>>
notIngest ==
    <<classifyVars, matchVars, chunkVars, dedupVars, extractVars, parseVars, buildVars,
      runVars, agentVars, uploadVars, distVars>>
notAgent ==
    <<classifyVars, matchVars, chunkVars, dedupVars, extractVars, parseVars, buildVars,
      runVars, ingestVars, uploadVars, distVars>>
notUpload ==
    <<classifyVars, matchVars, chunkVars, dedupVars, extractVars, parseVars, buildVars,
      runVars, ingestVars, agentVars, distVars>>
\* the distribution is counted over the list in materials
notDist ==
    <<classifyVars, matchVars, chunkVars, extractVars, parseVars, buildVars,
      runVars, ingestVars, agentVars, uploadVars>>

(***************************************************************************)
(* Python values                                                           *)
(***************************************************************************)
JAbsent == [kind |-> "absent", b |-> FALSE, n |-> 0, s |-> <<>>]
JNull == [kind |-> "null", b |-> FALSE, n |-> 0, s |-> <<>>]
JBool(x) == [kind |-> "bool", b |-> x, n |-> 0, s |-> <<>>]
JNum(x) == [kind |-> "num", b |-> FALSE, n |-> x, s |-> <<>>]
JStr(x) == [kind |-> "str", b |-> FALSE, n |-> 0, s |-> x]
\* a dict value; n is its number of keys
JDict(x) == [kind |-> "dict", b |-> FALSE, n |-> x, s |-> <<>>]

\* dict.get(key, default): the default only replaces a missing key
DictGet(d, key, default) == IF d[key].kind = "absent" THEN default ELSE d[key]

\* dict.get(key): a missing key reads as None
DictGetNone(d, key) == DictGet(d, key, JNull)

\* bool(v)
PyBool(v) ==
    CASE v.kind = "bool" -> v.b
      [] v.kind = "num" -> v.n /= 0
      [] v.kind = "str" -> v.s /= <<>>
      [] v.kind = "dict" -> v.n /= 0
      [] OTHER -> FALSE

(***************************************************************************)
(* Idle values: what a component's variables hold while another            *)
(* component's specification runs.                                         *)
(***************************************************************************)
IdleClassify == material_data = JNull /\ classify_log = <<>>

IdleMatch ==
    /\ item = JNull
    /\ supplier_bom = <<>>
    /\ kb_matches = <<>>
    /\ supplier_matches = <<>>
    /\ best_match = JNull
    /\ match_pc = "idle"

IdleChunk ==
    /\ text = <<>>
    /\ max_chunk_size = 0
    /\ final_chunks = <<>>
    /\ chunk_seps = <<>>
    /\ chunk_pc = "idle"

IdleDedup ==
    /\ materials = <<>>
    /\ unique_materials = <<>>
    /\ unique_again = <<>>
    /\ dedup_pc = "idle"

IdleExtract ==
    /\ translated_content = JNull
    /\ gemini_client = "none"
    /\ chunk_outcome = <<>>
    /\ chunks = <<>>
    /\ task_pc = <<>>
    /\ chunk_results = <<>>
    /\ completion_order = <<>>
    /\ all_materials = <<>>
    /\ result = JNull
    /\ stats = JNull
    /\ extract_pc = "idle"

IdleParse == response = JNull /\ parse_result = JNull /\ parse_pc = "idle"

IdleBuild == materials_data = <<>> /\ built_materials = <<>> /\ build_pc = "idle"

IdleRun ==
    /\ extracted_items = <<>>
    /\ kb_add = "ok"
    /\ kb_find = <<>>
    /\ kb_calls = <<>>
    /\ kb_items = <<>>
    /\ enhanced_matches = <<>>
    /\ run_pc = "idle"

IdleIngest == df = <<>> /\ bom_items = <<>> /\ ingest_pc = "idle"

IdleAgent == agent_stats = <<>> /\ agent_runs = <<>>

IdleUpload ==
    /\ upload_requests = <<>>
    /\ upload_dir = <<>>
    /\ upload_pc = <<>>
    /\ upload_read = <<>>

IdleDist == confidence_distribution = <<>> /\ distribution_pc = "idle"

\* the components added last are idle
IdleRest == IdleIngest /\ IdleAgent /\ IdleUpload /\ IdleDist

(***************************************************************************)
(* Python strings                                                          *)
(***************************************************************************)
\* str.isspace of one character
IsSpace(c) == c \in {" ", "\n", "\t"}

\* str.lower of one character
LowerChar(c) ==
    CASE c = "A" -> "a"
      [] c = "B" -> "b"
      [] c = "C" -> "c"
      [] c = "D" -> "d"
      [] c = "E" -> "e"
      [] c = "F" -> "f"
      [] c = "G" -> "g"
      [] c = "H" -> "h"
      [] c = "I" -> "i"
      [] c = "J" -> "j"
      [] c = "K" -> "k"
      [] c = "L" -> "l"
      [] c = "M" -> "m"
      [] c = "N" -> "n"
      [] c = "O" -> "o"
      [] c = "P" -> "p"
      [] c = "Q" -> "q"
      [] c = "R" -> "r"
      [] c = "S" -> "s"
      [] c = "T" -> "t"
      [] c = "U" -> "u"
      [] c = "V" -> "v"
      [] c = "W" -> "w"
      [] c = "X" -> "x"
      [] c = "Y" -> "y"
      [] c = "Z" -> "z"
      [] OTHER -> c

\* str.lower()
Lower(s) == [i \in 1..Len(s) |-> LowerChar(s[i])]

RECURSIVE LStrip(_)
\* str.lstrip()
LStrip(s) == IF s /= <<>> /\ IsSpace(Head(s)) THEN LStrip(Tail(s)) ELSE s

RECURSIVE RStrip(_)
\* str.rstrip()
RStrip(s) ==
    IF s /= <<>> /\ IsSpace(s[Len(s)]) THEN RStrip(SubSeq(s, 1, Len(s) - 1)) ELSE s

\* str.strip()
Strip(s) == RStrip(LStrip(s))

\* a in b, for two strings
StrIn(a, b) ==
    \E i \in 0..(Len(b) - Len(a)) : SubSeq(b, i + 1, i + Len(a)) = a

RECURSIVE SplitWs(_, _)
\* str.split(): the maximal runs of non-space characters, in order;
\* cur is the run being read
SplitWs(s, cur) ==
    IF s = <<>> THEN (IF cur = <<>> THEN <<>> ELSE <<cur>>)
    ELSE IF IsSpace(Head(s))
        THEN (IF cur = <<>> THEN SplitWs(Tail(s), <<>>)
              ELSE <<cur>> \o SplitWs(Tail(s), <<>>))
    ELSE SplitWs(Tail(s), Append(cur, Head(s)))

\* set(s.split())
WordSet(s) == LET w == SplitWs(s, <<>>) IN {w[i] : i \in 1..Len(w)}

\* the value of a str-valued dict entry
StrOf(v) == v.s

(***************************************************************************)
(* Classification rule engine                                              *)
(***************************************************************************)
Triple(label, level, path) ==
    [label |-> label, confidence_level |-> level, action_path |-> path]

\* A plausible slip: the obsolete / mismatch checks moved ahead of the
\* consumable rules.
ClassifyMaterialObsoleteFirst(md) ==
    LET has_consumable == PyBool(DictGet(md, "consumable_jigs_tools", JBool(FALSE)))
        has_pn == PyBool(DictGetNone(md, "part_number"))
        has_qty == PyBool(DictGetNone(md, "quantity"))
        has_specs == PyBool(DictGetNone(md, "specifications"))
        has_vendor == PyBool(DictGetNone(md, "vendor_name"))
        has_kit == PyBool(DictGet(md, "kit_available", JBool(FALSE)))
        pn_mismatch == PyBool(DictGet(md, "pn_mismatch", JBool(FALSE)))
        obsolete_pn == PyBool(DictGet(md, "obsolete_pn", JBool(FALSE)))
    IN  IF obsolete_pn THEN Triple(5, "low", "red")
        ELSE IF pn_mismatch THEN Triple(6, "low", "red")
        ELSE IF has_consumable /\ has_pn /\ has_qty /\ has_specs
            THEN Triple(1, "high", "green")
        ELSE IF has_consumable /\ has_pn /\ has_qty THEN Triple(2, "high", "green")
        ELSE IF has_consumable /\ has_pn /\ ~has_qty THEN Triple(3, "medium", "amber")
        ELSE IF has_consumable /\ ~has_pn THEN Triple(4, "low", "red")
        ELSE IF has_vendor /\ has_kit /\ ~has_pn THEN Triple(7, "low", "red")
        ELSE IF has_vendor /\ ~has_consumable THEN Triple(8, "medium", "amber")
        ELSE IF has_kit THEN Triple(9, "medium", "amber")
        ELSE Triple(10, "low", "red")

\* ExtractionAgent._classify_material on a dict
ClassifyMaterial(md) ==
    LET has_consumable == PyBool(DictGet(md, "consumable_jigs_tools", JBool(FALSE)))
        has_pn == PyBool(DictGetNone(md, "part_number"))
        has_qty == PyBool(DictGetNone(md, "quantity"))
        has_specs == PyBool(DictGetNone(md, "specifications"))
        has_vendor == PyBool(DictGetNone(md, "vendor_name"))
        has_kit == PyBool(DictGet(md, "kit_available", JBool(FALSE)))
        pn_mismatch == PyBool(DictGet(md, "pn_mismatch", JBool(FALSE)))
        obsolete_pn == PyBool(DictGet(md, "obsolete_pn", JBool(FALSE)))
    IN  IF has_consumable /\ has_pn /\ has_qty /\ has_specs
            THEN Triple(1, "high", "green")
        ELSE IF has_consumable /\ has_pn /\ has_qty THEN Triple(2, "high", "green")
        ELSE IF has_consumable /\ has_pn /\ ~has_qty THEN Triple(3, "medium", "amber")
        ELSE IF has_consumable /\ ~has_pn THEN Triple(4, "low", "red")
        ELSE IF obsolete_pn THEN Triple(5, "low", "red")
        ELSE IF pn_mismatch THEN Triple(6, "low", "red")
        ELSE IF has_vendor /\ has_kit /\ ~has_pn THEN Triple(7, "low", "red")
        ELSE IF has_vendor /\ ~has_consumable THEN Triple(8, "medium", "amber")
        ELSE IF has_kit THEN Triple(9, "medium", "amber")
        ELSE Triple(10, "low", "red")

\* The dicts _classify_material is exercised with: every field takes a truthy
\* and a falsy value, of the several Python kinds a decoded record can hold.
MaterialDataInputs ==
    [consumable_jigs_tools : {JAbsent, JBool(TRUE), JBool(FALSE)},
     part_number : {JNull, JStr(<<>>), JStr(<<"P">>)},
     quantity : {JAbsent, JNum(0), JNum(4)},
     specifications : {JDict(0), JDict(2)},
     vendor_name : {JNull, JStr(<<"V">>)},
     kit_available : {JBool(TRUE), JBool(FALSE)},
     pn_mismatch : {JBool(TRUE), JBool(FALSE)},
     obsolete_pn : {JBool(TRUE), JNum(0)}]

\* the number of calls of _classify_material on one dict
MaxClassifyCalls == 2

InitClassify ==
    /\ material_data \in MaterialDataInputs
    /\ classify_log = <<>>
    /\ IdleMatch /\ IdleChunk /\ IdleDedup /\ IdleExtract /\ IdleParse
    /\ IdleBuild /\ IdleRun /\ IdleRest

\* one call of _classify_material(material_data)
Classify ==
    /\ Len(classify_log) < MaxClassifyCalls
    /\ classify_log' = Append(classify_log, ClassifyMaterial(material_data))
    /\ UNCHANGED <<material_data, notClassify>>

NextClassify == Classify

SpecClassify == InitClassify /\ [][NextClassify]_vars

(***************************************************************************)
(* C1                                                                      *)
(***************************************************************************)
\* The eight flags of the rulebook, read off the dict.
Flag(key) == PyBool(DictGetNone(material_data, key))

\* The rulebook of the specification: rules 1..10 in their listed order.
RuleHolds(r) ==
    LET c == Flag("consumable_jigs_tools")
        p == Flag("part_number")
        q == Flag("quantity")
        s == Flag("specifications")
        v == Flag("vendor_name")
        k == Flag("kit_available")
        m == Flag("pn_mismatch")
        o == Flag("obsolete_pn")
    IN  CASE r = 1 -> c /\ p /\ q /\ s
          [] r = 2 -> c /\ p /\ q
          [] r = 3 -> c /\ p /\ ~q
          [] r = 4 -> c /\ ~p
          [] r = 5 -> o
          [] r = 6 -> m
          [] r = 7 -> v /\ k /\ ~p
          [] r = 8 -> v /\ ~c
          [] r = 9 -> k
          [] OTHER -> TRUE

RuleTriple(r) ==
    CASE r \in {1, 2} -> Triple(r, "high", "green")
      [] r \in {3, 8, 9} -> Triple(r, "medium", "amber")
      [] OTHER -> Triple(r, "low", "red")

FirstRule == CHOOSE r \in 1..10 : RuleHolds(r) /\ \A r2 \in 1..(r - 1) : ~RuleHolds(r2)

\* C1: every call of _classify_material returns the (label, confidence,
\* action) triple of the first rule of the ordered rulebook 1..10 that the
\* dict's eight flags satisfy; so two calls on the same flags agree.
C1_FirstMatchingRule ==
    \A i \in 1..Len(classify_log) : classify_log[i] = RuleTriple(FirstRule)

\* Reached: a second call on a dict that only rule 5 and later rules match.
C1_Witness ==
    /\ Len(classify_log) = 2
    /\ FirstRule = 5
    /\ Flag("vendor_name")
    /\ classify_log[2].label = 5

(***************************************************************************)
(* Cross-source matcher                                                    *)
(*                                                                         *)
(* A confidence is an integer number of 1/84000: p per cent is p * 840,    *)
(* and 0.9 * c / u is the integer c * 75600 / u for every union size u     *)
(* the model reaches (u <= 6), where the comparisons of the floats agree   *)
(* with the exact ones.                                                    *)
(***************************************************************************)
Pct(p) == p * 840

Min(a, b) == IF a <= b THEN a ELSE b
Max(a, b) == IF a >= b THEN a ELSE b

\* item.get('qa_material_name', item.get('name', ''))
MaterialName(it) == StrOf(DictGet(it, "qa_material_name", DictGet(it, "name", JStr(<<>>))))

\* A plausible slip: the containment test tried before the equality test,
\* so that equal part numbers score as partial ones.
RowConfidencePartialFirst(it, supplier_item) ==
    LET material_name == Lower(MaterialName(it))
        part_number == DictGet(it, "part_number", JStr(<<>>))
        supplier_desc == Lower(StrOf(DictGet(supplier_item, "description", JStr(<<>>))))
        supplier_part == DictGet(supplier_item, "part_number", JStr(<<>>))
        both == PyBool(part_number) /\ PyBool(supplier_part)
        pn == Strip(StrOf(part_number))
        sp == Strip(StrOf(supplier_part))
        common_words == WordSet(material_name) \cap WordSet(supplier_desc)
        all_words == WordSet(material_name) \cup WordSet(supplier_desc)
    IN  IF both /\ (StrIn(pn, sp) \/ StrIn(sp, pn)) THEN Pct(80)
        ELSE IF both /\ pn = sp THEN Pct(95)
        ELSE IF material_name /= <<>> /\ supplier_desc /= <<>> /\ common_words /= {}
            THEN Min(Pct(85), (Cardinality(common_words) * Pct(90)) \div Cardinality(all_words))
        ELSE 0

\* the confidence of one supplier row (lines 86-108)
RowConfidence(it, supplier_item) ==
    LET material_name == Lower(MaterialName(it))
        part_number == DictGet(it, "part_number", JStr(<<>>))
        supplier_desc == Lower(StrOf(DictGet(supplier_item, "description", JStr(<<>>))))
        supplier_part == DictGet(supplier_item, "part_number", JStr(<<>>))
        both == PyBool(part_number) /\ PyBool(supplier_part)
        pn == Strip(StrOf(part_number))
        sp == Strip(StrOf(supplier_part))
        common_words == WordSet(material_name) \cap WordSet(supplier_desc)
        all_words == WordSet(material_name) \cup WordSet(supplier_desc)
    IN  IF both /\ pn = sp THEN Pct(95)
        ELSE IF both /\ (StrIn(pn, sp) \/ StrIn(sp, pn)) THEN Pct(80)
        ELSE IF material_name /= <<>> /\ supplier_desc /= <<>> /\ common_words /= {}
            THEN Min(Pct(85), (Cardinality(common_words) * Pct(90)) \div Cardinality(all_words))
        ELSE 0

\* the candidate appended for a row (lines 111-117)
SupplierCandidate(supplier_item, confidence) ==
    [supplier_description |-> StrOf(DictGet(supplier_item, "description", JStr(<<>>))),
     supplier_part_number |-> StrOf(DictGet(supplier_item, "part_number", JStr(<<>>))),
     confidence_score |-> confidence,
     match_type |-> IF confidence > Pct(85) THEN "part_number" ELSE "description",
     supplier_data |-> supplier_item]

RECURSIVE ScanRows(_, _)
\* the loop over supplier_bom: the candidates above the threshold, in row order
ScanRows(it, bom) ==
    IF bom = <<>> THEN <<>>
    ELSE LET confidence == RowConfidence(it, Head(bom))
         IN  (IF confidence > Pct(30)
                THEN <<SupplierCandidate(Head(bom), confidence)>> ELSE <<>>)
             \o ScanRows(it, Tail(bom))

RECURSIVE InsertAsc(_, _)
\* A plausible slip: reverse=True left out, the sort ascends.
InsertAsc(sorted, m) ==
    IF sorted = <<>> THEN <<m>>
    ELSE IF Head(sorted).confidence_score <= m.confidence_score
        THEN <<Head(sorted)>> \o InsertAsc(Tail(sorted), m)
    ELSE <<m>> \o sorted

RECURSIVE InsertDesc(_, _)
\* one step of a stable descending sort: m goes after every element whose
\* score is at least its own
InsertDesc(sorted, m) ==
    IF sorted = <<>> THEN <<m>>
    ELSE IF Head(sorted).confidence_score >= m.confidence_score
        THEN <<Head(sorted)>> \o InsertDesc(Tail(sorted), m)
    ELSE <<m>> \o sorted

RECURSIVE SortedDesc(_, _)
\* sorted(matches, key=confidence_score, reverse=True): stable
SortedDesc(matches, acc) ==
    IF matches = <<>> THEN acc
    ELSE SortedDesc(Tail(matches), InsertDesc(acc, Head(matches)))

\* A plausible slip: the sort left out, the candidates stay in row order.
FindSupplierMatchesUnsorted(it, bom) == ScanRows(it, bom)

\* ItemMatcher._find_supplier_matches
FindSupplierMatches(it, bom) == SortedDesc(ScanRows(it, bom), <<>>)

\* the dict _select_best_match returns; {} is EmptyMatch, and a key the
\* dict does not hold reads JAbsent (id) or JNull (supplier_data)
KbWinner(kb_match, confidence, match_type) ==
    [empty |-> FALSE,
     id |-> JNum(kb_match.id),
     supplier_description |-> kb_match.material_name,
     supplier_part_number |-> kb_match.part_number,
     confidence_score |-> confidence,
     match_type |-> match_type,
     match_source |-> "knowledge_base",
     supplier_data |-> JNull]

SupplierWinner(best_supplier, match_source) ==
    [empty |-> FALSE,
     id |-> JAbsent,
     supplier_description |-> best_supplier.supplier_description,
     supplier_part_number |-> best_supplier.supplier_part_number,
     confidence_score |-> best_supplier.confidence_score,
     match_type |-> best_supplier.match_type,
     match_source |-> match_source,
     supplier_data |-> best_supplier.supplier_data]

EmptyMatch ==
    [empty |-> TRUE,
     id |-> JAbsent,
     supplier_description |-> <<>>,
     supplier_part_number |-> <<>>,
     confidence_score |-> 0,
     match_type |-> "",
     match_source |-> "",
     supplier_data |-> JNull]

\* the first kb_match the loop of lines 126-127 accepts (0: none)
FirstExact(kb) ==
    LET hits == {i \in 1..Len(kb) :
                    kb[i].match_type = "exact" /\ kb[i].confidence_score > Pct(80)}
    IN  IF hits = {} THEN 0 ELSE CHOOSE i \in hits : \A j \in hits : i <= j

\* max(kb_matches, key=confidence_score): the first of the maximal elements
BestKb(kb) ==
    LET i == CHOOSE i \in 1..Len(kb) :
                /\ \A j \in 1..Len(kb) : kb[j].confidence_score <= kb[i].confidence_score
                /\ \A j \in 1..(i - 1) : kb[j].confidence_score < kb[i].confidence_score
    IN  kb[i]

\* the rest of _select_best_match, after the knowledge-store exact loop
SelectAfterExact(kb, sup) ==
    IF sup /= <<>> /\ sup[1].confidence_score > Pct(70)
        THEN SupplierWinner(sup[1], "supplier_bom")
    ELSE IF kb /= <<>> /\ BestKb(kb).confidence_score > Pct(50)
        THEN KbWinner(BestKb(kb), Max(Pct(60), BestKb(kb).confidence_score), "fuzzy")
    ELSE IF sup /= <<>> THEN SupplierWinner(sup[1], "supplier_bom_low_confidence")
    ELSE EmptyMatch

\* A plausible slip: the high-confidence supplier candidate tried before the
\* knowledge-store exact match.
SelectBestMatchSupplierFirst(it, kb, sup) ==
    IF sup /= <<>> /\ sup[1].confidence_score > Pct(70)
        THEN SupplierWinner(sup[1], "supplier_bom")
    ELSE IF FirstExact(kb) /= 0
        THEN KbWinner(kb[FirstExact(kb)],
                      Min(Pct(95), kb[FirstExact(kb)].confidence_score), "exact")
    ELSE SelectAfterExact(kb, sup)

\* ItemMatcher._select_best_match
SelectBestMatch(it, kb, sup) ==
    IF FirstExact(kb) /= 0
        THEN KbWinner(kb[FirstExact(kb)],
                      Min(Pct(95), kb[FirstExact(kb)].confidence_score), "exact")
    ELSE SelectAfterExact(kb, sup)

(***************************************************************************)
(* The matcher's specifications                                            *)
(***************************************************************************)
\* the sequences over S of length at most n
SeqsUpTo(S, n) == UNION {[1..k -> S] : k \in 0..n}

\* the most rows of a supplier table, and the most knowledge-store candidates
MaxRows == 2
MaxKb == 2

ItemDict(qa, name, pn) == [qa_material_name |-> qa, name |-> name, part_number |-> pn]
SupplierRow(desc, pn) == [description |-> desc, part_number |-> pn]
KbRecord(id, type, score) ==
    [id |-> id, material_name |-> <<"k", "b">>, part_number |-> <<"K">>,
     match_type |-> type, confidence_score |-> score]

\* Items for _find_supplier_matches: the name given as qa_material_name or
\* only as name, in mixed case, empty; the part number missing, None, empty,
\* blank, padded.
ScoringItems ==
    {ItemDict(n[1], n[2], pn) :
        n \in {<<JAbsent, JStr(<<"A", " ", "b">>)>>,
               <<JStr(<<"a", " ", "b", " ", "c">>), JStr(<<"z">>)>>,
               <<JStr(<<>>), JStr(<<"a">>)>>,
               <<JAbsent, JAbsent>>},
        pn \in {JAbsent, JNull, JStr(<<" ">>), JStr(<<"P", "1">>),
                JStr(<<" ", "P", "1", " ">>)}}

ScoringRows ==
    {SupplierRow(d, pn) :
        d \in {JStr(<<"a", " ", " ", "B">>), JStr(<<"a">>), JAbsent},
        pn \in {JStr(<<>>), JStr(<<"P", "1">>), JStr(<<"P", "1", "2">>), JStr(<<"Q">>)}}

\* Items, rows and knowledge-store candidates for _select_best_match: the
\* supplier scores 0.95, 0.85, 0.80, 0.60, 0.45 and none; knowledge-store
\* scores on both sides of 0.80 and of 0.50.
SelectItems ==
    {ItemDict(JStr(<<"a", " ", "b", " ", "c">>), JStr(<<"a", " ", "b", " ", "c">>), pn) :
        pn \in {JNull, JStr(<<"P", "1">>)}}

SelectRows ==
    {SupplierRow(JStr(<<"a", " ", "b">>), JStr(<<"P", "1">>)),
     SupplierRow(JStr(<<"a">>), JStr(<<"P", "1", "2">>)),
     SupplierRow(JStr(<<"A", " ", "B", " ", "C">>), JStr(<<"Q">>)),
     SupplierRow(JStr(<<"b", " ", "c", " ", "d">>), JStr(<<>>))}

KbCandidates ==
    {KbRecord(1, "exact", Pct(100)), KbRecord(2, "exact", Pct(90)),
     KbRecord(3, "exact", Pct(80)), KbRecord(4, "fuzzy", Pct(90)),
     KbRecord(5, "fuzzy", Pct(55)), KbRecord(6, "fuzzy", Pct(50))}

InitFindSupplier ==
    /\ item \in ScoringItems
    /\ supplier_bom \in SeqsUpTo(ScoringRows, MaxRows)
    /\ kb_matches = <<>>
    /\ supplier_matches = <<>>
    /\ best_match = JNull
    /\ match_pc = "start"
    /\ IdleClassify /\ IdleChunk /\ IdleDedup /\ IdleExtract /\ IdleParse
    /\ IdleBuild /\ IdleRun /\ IdleRest

InitSelect ==
    /\ item \in SelectItems
    /\ supplier_bom \in SeqsUpTo(SelectRows, MaxRows)
    /\ kb_matches \in SeqsUpTo(KbCandidates, MaxKb)
    /\ supplier_matches = <<>>
    /\ best_match = JNull
    /\ match_pc = "start"
    /\ IdleClassify /\ IdleChunk /\ IdleDedup /\ IdleExtract /\ IdleParse
    /\ IdleBuild /\ IdleRun /\ IdleRest

\* supplier_matches = self._find_supplier_matches(item, supplier_bom)
FindSupplier ==
    /\ match_pc = "start"
    /\ supplier_matches' = FindSupplierMatches(item, supplier_bom)
    /\ match_pc' = "scored"
    /\ UNCHANGED <<item, supplier_bom, kb_matches, best_match, notMatch>>

\* best_match = self._select_best_match(item, kb_matches, supplier_matches)
Select ==
    /\ match_pc = "scored"
    /\ best_match' = SelectBestMatch(item, kb_matches, supplier_matches)
    /\ match_pc' = "selected"
    /\ UNCHANGED <<item, supplier_bom, kb_matches, supplier_matches, notMatch>>

NextFindSupplier == FindSupplier

NextSelect == FindSupplier \/ Select

SpecFindSupplier == InitFindSupplier /\ [][NextFindSupplier]_vars

SpecSelect == InitSelect /\ [][NextSelect]_vars

(***************************************************************************)
(* C2                                                                      *)
(***************************************************************************)
\* the knowledge-store candidates of type exact scoring above 0.80
C2_Exact ==
    {i \in 1..Len(kb_matches) :
        kb_matches[i].match_type = "exact" /\ kb_matches[i].confidence_score > Pct(80)}

\* the highest-scoring knowledge-store candidates
C2_TopKb ==
    {i \in 1..Len(kb_matches) :
        \A j \in 1..Len(kb_matches) :
            kb_matches[j].confidence_score <= kb_matches[i].confidence_score}

\* the supplier candidate at the head of the list is a highest-scoring one
C2_TopSupplier ==
    \A j \in 1..Len(supplier_matches) :
        supplier_matches[j].confidence_score <= supplier_matches[1].confidence_score

C2_IsKb(i, score, type) ==
    /\ ~best_match.empty
    /\ best_match.match_source = "knowledge_base"
    /\ best_match.match_type = type
    /\ best_match.id = JNum(kb_matches[i].id)
    /\ best_match.confidence_score = score

C2_IsSupplier(source) ==
    /\ ~best_match.empty
    /\ C2_TopSupplier
    /\ best_match.match_source = source
    /\ best_match.supplier_data = supplier_matches[1].supplier_data
    /\ best_match.confidence_score = supplier_matches[1].confidence_score
    /\ best_match.match_type = supplier_matches[1].match_type

\* C2: the winner follows the priority (a) knowledge-store exact above 0.80,
\* reported at min(0.95, score), whatever the supplier candidates score;
\* (b) top supplier candidate if above 0.70; (c) highest knowledge-store
\* candidate if above 0.50, reported at max(0.60, score); (d) top supplier
\* candidate, labelled low-confidence; (e) no match.
C2_SelectionPriority ==
    match_pc = "selected" =>
        IF C2_Exact /= {}
            THEN \E i \in C2_Exact :
                    C2_IsKb(i, Min(Pct(95), kb_matches[i].confidence_score), "exact")
        ELSE IF supplier_matches /= <<>> /\ supplier_matches[1].confidence_score > Pct(70)
            THEN C2_IsSupplier("supplier_bom")
        ELSE IF \E i \in C2_TopKb : kb_matches[i].confidence_score > Pct(50)
            THEN \E i \in C2_TopKb :
                    C2_IsKb(i, Max(Pct(60), kb_matches[i].confidence_score), "fuzzy")
        ELSE IF supplier_matches /= <<>>
            THEN C2_IsSupplier("supplier_bom_low_confidence")
        ELSE best_match.empty

\* Reached: a knowledge-store exact candidate at 0.90 wins over a supplier
\* candidate matched by part number at 0.95.
C2_Witness ==
    /\ match_pc = "selected"
    /\ supplier_matches /= <<>>
    /\ supplier_matches[1].confidence_score = Pct(95)
    /\ \A i \in 1..Len(kb_matches) : kb_matches[i].confidence_score <= Pct(90)
    /\ best_match.match_source = "knowledge_base"
    /\ best_match.match_type = "exact"
    /\ best_match.confidence_score = Pct(90)

(***************************************************************************)
(* C3                                                                      *)
(***************************************************************************)
\* a part number is present
C3_Present(v) == v.kind = "str" /\ v.s /= <<>>

\* the score the specification states for one supplier row
C3_Score(row) ==
    LET pi == item.part_number
        ps == row.part_number
        shared == WordSet(Lower(MaterialName(item)))
                    \cap WordSet(Lower(row.description.s))
        union == WordSet(Lower(MaterialName(item)))
                    \cup WordSet(Lower(row.description.s))
    IN  IF C3_Present(pi) /\ C3_Present(ps) /\ Strip(pi.s) = Strip(ps.s) THEN Pct(95)
        ELSE IF /\ C3_Present(pi) /\ C3_Present(ps)
                /\ (StrIn(Strip(pi.s), Strip(ps.s)) \/ StrIn(Strip(ps.s), Strip(pi.s)))
            THEN Pct(80)
        ELSE IF shared = {} THEN 0
        ELSE Min(Pct(85), (Pct(90) * Cardinality(shared)) \div Cardinality(union))

\* the rows of the table that score above 0.30
C3_Kept == {i \in 1..Len(supplier_bom) : C3_Score(supplier_bom[i]) > Pct(30)}

\* C3: _find_supplier_matches returns exactly the supplier rows scoring above
\* 0.30, each once with its score (0.95 equal trimmed part numbers, 0.80
\* containment, else the capped word-overlap ratio), in descending score order.
C3_SupplierMatches ==
    match_pc = "scored" =>
        /\ Len(supplier_matches) = Cardinality(C3_Kept)
        /\ \E f \in [1..Len(supplier_matches) -> C3_Kept] :
            /\ \A k, l \in 1..Len(supplier_matches) : k /= l => f[k] /= f[l]
            /\ \A k \in 1..Len(supplier_matches) :
                /\ supplier_matches[k].supplier_data = supplier_bom[f[k]]
                /\ supplier_matches[k].confidence_score = C3_Score(supplier_bom[f[k]])
        /\ \A k, l \in 1..Len(supplier_matches) :
            k < l => supplier_matches[k].confidence_score
                        >= supplier_matches[l].confidence_score

\* Reached: a table whose second row outscores its first (so the sort moved
\* it ahead), the first row matched by word overlap.
C3_Witness ==
    /\ match_pc = "scored"
    /\ Len(supplier_bom) = 2
    /\ Len(supplier_matches) = 2
    /\ supplier_matches[1].supplier_data = supplier_bom[2]
    /\ supplier_matches[1].confidence_score = Pct(80)
    /\ supplier_matches[2].confidence_score = Pct(45)

(***************************************************************************)
(* Chunker                                                                 *)
(***************************************************************************)
NL == <<"\n">>
NLNL == <<"\n", "\n">>

RECURSIVE SplitSep(_, _, _)
\* str.split(sep): cut at each occurrence of sep, scanning left to right;
\* cur is the piece being read
SplitSep(s, sep, cur) ==
    IF s = <<>> THEN <<cur>>
    ELSE IF Len(s) >= Len(sep) /\ SubSeq(s, 1, Len(sep)) = sep
        THEN <<cur>> \o SplitSep(SubSeq(s, Len(sep) + 1, Len(s)), sep, <<>>)
    ELSE SplitSep(Tail(s), sep, Append(cur, Head(s)))

RECURSIVE Join(_, _)
\* sep.join(parts)
Join(parts, sep) ==
    IF parts = <<>> THEN <<>>
    ELSE IF Len(parts) = 1 THEN parts[1]
    ELSE parts[1] \o sep \o Join(Tail(parts), sep)

RECURSIVE PackGreedy(_, _, _, _, _)
\* the packing loop of lines 123-137 and 161-172: current holds the units of
\* the chunk being built and current_length the sum of their lengths
PackGreedy(units, max_size, current, current_length, sep) ==
    IF units = <<>>
        THEN (IF current /= <<>> THEN <<Join(current, sep)>> ELSE <<>>)
    ELSE IF current_length + Len(Head(units)) > max_size /\ current /= <<>>
        THEN <<Join(current, sep)>>
             \o PackGreedy(Tail(units), max_size, <<Head(units)>>, Len(Head(units)), sep)
    ELSE PackGreedy(Tail(units), max_size, Append(current, Head(units)),
                    current_length + Len(Head(units)), sep)

RECURSIVE DropEmpty(_)
DropEmpty(units) ==
    IF units = <<>> THEN <<>>
    ELSE (IF Head(units) = <<>> THEN <<>> ELSE <<Head(units)>>) \o DropEmpty(Tail(units))

\* A plausible slip: blank lines skipped while packing lines.
SplitLargeChunkSkipBlank(chunk, max_size) ==
    IF Len(chunk) <= max_size THEN <<chunk>>
    ELSE PackGreedy(DropEmpty(SplitSep(chunk, NL, <<>>)), max_size, <<>>, 0, NL)

\* ExtractionAgent._split_large_chunk
SplitLargeChunk(chunk, max_size) ==
    IF Len(chunk) <= max_size THEN <<chunk>>
    ELSE PackGreedy(SplitSep(chunk, NL, <<>>), max_size, <<>>, 0, NL)

\* the paragraph-level chunks (lines 116-137)
ParagraphChunks(t, max_size) == PackGreedy(SplitSep(t, NLNL, <<>>), max_size, <<>>, 0, NLNL)

\* the sub-chunks of one paragraph-level chunk (lines 142-146)
SubChunks(chunk, max_size) ==
    IF Len(chunk) > max_size THEN SplitLargeChunk(chunk, max_size) ELSE <<chunk>>

RECURSIVE Refine(_, _)
\* the loop of lines 140-146 over the paragraph-level cs
Refine(cs, max_size) ==
    IF cs = <<>> THEN <<>>
    ELSE SubChunks(Head(cs), max_size) \o Refine(Tail(cs), max_size)

\* ExtractionAgent._split_into_extraction_chunks
SplitIntoExtractionChunks(t, max_size) ==
    IF Len(t) <= max_size THEN <<t>> ELSE Refine(ParagraphChunks(t, max_size), max_size)

RECURSIVE CutSeps(_, _)
\* the separator each cut removed: "\n" between the sub-cs of one
\* paragraph-level chunk, "\n\n" between paragraph-level cs
CutSeps(cs, max_size) ==
    IF cs = <<>> THEN <<>>
    ELSE [i \in 1..(Len(SubChunks(Head(cs), max_size)) - 1) |-> NL]
         \o (IF Len(cs) > 1 THEN <<NLNL>> ELSE <<>>)
         \o CutSeps(Tail(cs), max_size)

CutSeparators(t, max_size) ==
    IF Len(t) <= max_size THEN <<>> ELSE CutSeps(ParagraphChunks(t, max_size), max_size)

\* the longest text and the largest size limit
MaxTextLen == 5
MaxLimit == 3

ChunkChars == {"a", "b", "\n"}

InitChunk ==
    /\ text \in SeqsUpTo(ChunkChars, MaxTextLen)
    /\ max_chunk_size \in 1..MaxLimit
    /\ final_chunks = <<>>
    /\ chunk_seps = <<>>
    /\ chunk_pc = "start"
    /\ IdleClassify /\ IdleMatch /\ IdleDedup /\ IdleExtract /\ IdleParse
    /\ IdleBuild /\ IdleRun /\ IdleRest

\* chunks = self._split_into_extraction_chunks(text, max_chunk_size)
SplitText ==
    /\ chunk_pc = "start"
    /\ final_chunks' = SplitIntoExtractionChunks(text, max_chunk_size)
    /\ chunk_seps' = CutSeparators(text, max_chunk_size)
    /\ chunk_pc' = "split"
    /\ UNCHANGED <<text, max_chunk_size, notChunk>>

NextChunk == SplitText

SpecChunk == InitChunk /\ [][NextChunk]_vars

(***************************************************************************)
(* C4                                                                      *)
(***************************************************************************)
HasNewline(s) == \E i \in 1..Len(s) : s[i] = "\n"

\* C4: every chunk is at most max_chunk_size long, except a chunk that is
\* one single line (no newline in it) longer than the limit.
C4_ChunkWithinLimit ==
    chunk_pc = "split" =>
        \A i \in 1..Len(final_chunks) :
            \/ Len(final_chunks[i]) <= max_chunk_size
            \/ ~HasNewline(final_chunks[i])

(***************************************************************************)
(* C5                                                                      *)
(***************************************************************************)
RECURSIVE JoinCuts(_, _)
\* the cs joined in order, each cut filled with its separator
JoinCuts(cs, seps) ==
    IF cs = <<>> THEN <<>>
    ELSE IF Len(cs) = 1 \/ seps = <<>> THEN cs[1]
    ELSE cs[1] \o seps[1] \o JoinCuts(Tail(cs), Tail(seps))

\* C5: joining the chunks in order, with the separator removed at each cut,
\* gives back the text exactly.
C5_Lossless ==
    chunk_pc = "split" =>
        /\ Len(final_chunks) >= 1
        /\ Len(chunk_seps) = Len(final_chunks) - 1
        /\ JoinCuts(final_chunks, chunk_seps) = text

\* Reached: a text cut both at a blank line and at a single newline, with a
\* blank line left inside the text.
C5_Witness ==
    /\ chunk_pc = "split"
    /\ \E i, j \in 1..Len(chunk_seps) : chunk_seps[i] = NL /\ chunk_seps[j] = NLNL
    /\ \E i \in 1..Len(final_chunks) : final_chunks[i] = <<>>

(***************************************************************************)
(* Extracted materials and deduplication                                   *)
(***************************************************************************)
\* an ExtractedMaterial: the fields the coordinator reads or reports
Material(name, part_number, confidence_score, label, level, path) ==
    [name |-> name,
     part_number |-> part_number,
     confidence_score |-> confidence_score,
     classification_label |-> label,
     confidence_level |-> level,
     action_path_rag |-> path]

\* (material.part_number or "")
PartOrEmpty(mat) == IF PyBool(mat.part_number) THEN mat.part_number.s ELSE <<>>

\* unique_key = f"{name_key}|{part_key}"
UniqueKey(mat) == Strip(Lower(mat.name)) \o <<"|">> \o Strip(Lower(PartOrEmpty(mat)))

RECURSIVE DedupLoop(_, _, _)
\* the loop of lines 639-653: seen_keys and unique_materials so far
DedupLoop(ms, seen_keys, unique) ==
    IF ms = <<>> THEN unique
    ELSE IF UniqueKey(Head(ms)) \notin seen_keys
        THEN DedupLoop(Tail(ms), seen_keys \cup {UniqueKey(Head(ms))},
                       Append(unique, Head(ms)))
    ELSE DedupLoop(Tail(ms), seen_keys, unique)

\* ExtractionAgent._deduplicate_materials
DeduplicateMaterials(ms) == IF ms = <<>> THEN <<>> ELSE DedupLoop(ms, {}, <<>>)

\* the longest list handed to _deduplicate_materials
MaxMaterials == 3

\* Materials whose names and part numbers differ in case, padding, None
\* against the empty string, and in where a "|" stands.
DedupMaterials ==
    {Material(n, pn, Pct(80), 10, "low", "red") :
        n \in {<<"a">>, <<"A", " ">>, <<"a", "|", "b">>},
        pn \in {JNull, JStr(<<>>), JStr(<<"b", "|">>), JStr(<<" ", "P">>)}}

InitDedup ==
    /\ materials \in SeqsUpTo(DedupMaterials, MaxMaterials)
    /\ unique_materials = <<>>
    /\ unique_again = <<>>
    /\ dedup_pc = "start"
    /\ IdleClassify /\ IdleMatch /\ IdleChunk /\ IdleExtract /\ IdleParse
    /\ IdleBuild /\ IdleRun /\ IdleRest

\* unique_materials = self._deduplicate_materials(materials)
Dedup ==
    /\ dedup_pc = "start"
    /\ unique_materials' = DeduplicateMaterials(materials)
    /\ dedup_pc' = "once"
    /\ UNCHANGED <<materials, unique_again, notDedup>>

\* _deduplicate_materials applied to its own output
DedupAgain ==
    /\ dedup_pc = "once"
    /\ unique_again' = DeduplicateMaterials(unique_materials)
    /\ dedup_pc' = "twice"
    /\ UNCHANGED <<materials, unique_materials, notDedup>>

NextDedup == Dedup \/ DedupAgain

SpecDedup == InitDedup /\ [][NextDedup]_vars

(***************************************************************************)
(* C6                                                                      *)
(***************************************************************************)
\* the composite key as specified: the pair (lower-cased trimmed name,
\* lower-cased trimmed part number), an absent part number counting as empty
C6_Pair(mat) == <<Strip(Lower(mat.name)), Strip(Lower(PartOrEmpty(mat)))>>

\* the indices of the first occurrences of each pair
C6_First ==
    {i \in 1..Len(materials) :
        \A j \in 1..(i - 1) : C6_Pair(materials[j]) /= C6_Pair(materials[i])}

RECURSIVE C6_Pick(_, _)
\* the sub-sequence of seq at the indices from k on that are in C6_First
C6_Pick(seq, k) ==
    IF k > Len(seq) THEN <<>>
    ELSE (IF k \in C6_First THEN <<seq[k]>> ELSE <<>>) \o C6_Pick(seq, k + 1)

\* C6: _deduplicate_materials returns exactly the first occurrences per
\* (name, part number) pair, in input order: an item is dropped if and only
\* if an earlier item has the same pair; no two survivors share a pair; and
\* deduplicating the output again changes nothing.
C6_FirstOccurrences ==
    /\ dedup_pc \in {"once", "twice"} =>
        /\ unique_materials = C6_Pick(materials, 1)
        /\ \A k, l \in 1..Len(unique_materials) :
            k /= l => C6_Pair(unique_materials[k]) /= C6_Pair(unique_materials[l])
    /\ dedup_pc = "twice" => unique_again = unique_materials

(***************************************************************************)
(* Extraction coordinator                                                  *)
(***************************************************************************)
\* ExtractionAgent._create_demo_materials_chunk_enhanced
DemoMaterials ==
    <<Material(<<"M", "6", "x", "2", "0", "m", "m", " ", "H", "e", "x", " ",
                "B", "o", "l", "t">>,
               JStr(<<"B", "O", "L", "T", "-", "M", "6", "-", "2", "0", "-", "S",
                     "S">>),
               Pct(95), 2, "high", "green"),
      Material(<<"I", "n", "d", "u", "s", "t", "r", "i", "a", "l", " ", "A",
                "d", "h", "e", "s", "i", "v", "e", " ", "T", "a", "p", "e",
                " ", "2", "5", "m", "m">>,
               JStr(<<"T", "A", "P", "E", "-", "A", "D", "H", "-", "2", "5">>),
               Pct(88), 2, "high", "green"),
      Material(<<"S", "i", "l", "i", "c", "o", "n", "e", " ", "S", "e", "a",
                "l", "i", "n", "g", " ", "C", "o", "m", "p", "o", "u", "n",
                "d">>,
               JStr(<<"S", "E", "A", "L", "-", "S", "I", "L", "-", "0", "1">>),
               Pct(85), 2, "high", "green")>>

\* what the task of one chunk returns to gather: a list of materials, or the
\* exception it raised
Returned(items) == [raised |-> FALSE, items |-> items]
Raised == [raised |-> TRUE, items |-> <<>>]

\* What the collaborators do for one chunk.  "escape": an exception raised
\* before the try block of _extract_from_chunk_enhanced (lines 178-216), e.g.
\* by the client's is_available(); "raise": the generation call raises;
\* "items": the call returns and the decoded records give these materials
\* (none when the decoded output is empty).
OutEscape == [kind |-> "escape", items |-> <<>>]
OutRaise == [kind |-> "raise", items |-> <<>>]
OutItems(items) == [kind |-> "items", items |-> items]

\* ExtractionAgent._extract_from_chunk_enhanced, run to its end
ExtractFromChunk(client, outcome) ==
    IF client \in {"none", "unavailable"} THEN Returned(DemoMaterials)
    ELSE IF outcome.kind = "escape" THEN Raised
    ELSE IF outcome.kind = "raise" THEN Returned(<<>>)
    ELSE Returned(outcome.items)

\* whether the task reaches "await self.gemini_client.generate_content(...)"
ReachesAwait(client, outcome) == client = "available" /\ outcome.kind /= "escape"

\* A plausible slip: the results taken in completion order (as_completed)
\* instead of task order.
GatheredByCompletion(results, order) == [k \in 1..Len(order) |-> results[order[k]]]

\* chunk_results = await asyncio.gather(*extract_tasks, return_exceptions=True):
\* the tasks' results in task order, whatever the order of completion
Gathered(results, order) == [k \in 1..Len(results) |-> results[k]]

RECURSIVE MergeLoop(_)
\* the loop of lines 53-61: all_materials
MergeLoop(rs) ==
    IF rs = <<>> THEN <<>>
    ELSE (IF ~Head(rs).raised /\ Head(rs).items /= <<>> THEN Head(rs).items ELSE <<>>)
         \o MergeLoop(Tail(rs))

\* A plausible slip: every task that returned a list counted, empty or not.
SuccessfulChunksCountingEmpty(rs) == Cardinality({k \in 1..Len(rs) : ~rs[k].raised})

\* the loop of lines 53-61: successful_chunks
SuccessfulChunks(rs) ==
    Cardinality({k \in 1..Len(rs) : ~rs[k].raised /\ rs[k].items /= <<>>})

\* A plausible slip: the bucket bounds tested with > instead of >=.
CalculateConfidenceDistributionStrict(ms) ==
    [high |-> Cardinality({k \in 1..Len(ms) : ms[k].confidence_score > Pct(80)}),
     medium |-> Cardinality({k \in 1..Len(ms) :
                    ms[k].confidence_score <= Pct(80) /\ ms[k].confidence_score > Pct(60)}),
     low |-> Cardinality({k \in 1..Len(ms) : ms[k].confidence_score <= Pct(60)})]

\* ExtractionAgent._calculate_confidence_distribution
CalculateConfidenceDistribution(ms) ==
    [high |-> Cardinality({k \in 1..Len(ms) : ms[k].confidence_score >= Pct(80)}),
     medium |-> Cardinality({k \in 1..Len(ms) :
                    ms[k].confidence_score < Pct(80) /\ ms[k].confidence_score >= Pct(60)}),
     low |-> Cardinality({k \in 1..Len(ms) : ms[k].confidence_score < Pct(60)})]

\* ExtractionAgent._generate_classification_summary (the action-path counts)
GenerateClassificationSummary(ms) ==
    [total_materials |-> Len(ms),
     green_materials |-> Cardinality({k \in 1..Len(ms) : ms[k].action_path_rag = "green"}),
     amber_materials |-> Cardinality({k \in 1..Len(ms) : ms[k].action_path_rag = "amber"}),
     red_materials |-> Cardinality({k \in 1..Len(ms) : ms[k].action_path_rag = "red"})]

\* self.stats after __init__
InitialStats ==
    [extractions_performed |-> 0, materials_extracted |-> 0,
     chunks_processed |-> 0, errors |-> 0]

\* the mapping returned on the normal path (lines 65-90); it has no
\* "demo_mode" and no "error" key
NormalResult(rs, n_chunks, st) ==
    LET merged == MergeLoop(rs)
        handed == IF merged = <<>> THEN DemoMaterials ELSE merged
        unique == DeduplicateMaterials(handed)
    IN  [success |-> TRUE,
         materials |-> unique,
         total_materials |-> Len(unique),
         chunks_processed |-> n_chunks,
         successful_chunks |-> SuccessfulChunks(rs),
         confidence_distribution |-> CalculateConfidenceDistribution(unique),
         qa_classification_summary |-> GenerateClassificationSummary(unique),
         processing_stats |-> st,
         error |-> FALSE,
         demo_mode |-> FALSE]

\* the mapping returned by the except branch (lines 96-109)
ErrorResult(st) ==
    [success |-> TRUE,
     materials |-> DemoMaterials,
     total_materials |-> Len(DemoMaterials),
     chunks_processed |-> 1,
     successful_chunks |-> 0,
     confidence_distribution |-> CalculateConfidenceDistribution(DemoMaterials),
     qa_classification_summary |-> GenerateClassificationSummary(DemoMaterials),
     processing_stats |-> st,
     error |-> TRUE,
     demo_mode |-> TRUE]

\* the chunk size of the runs of the model; the coordinator passes 1500
\* (line 37), and the texts of the model are scaled down with it
ExtractChunkSize == 2

\* document bodies of one, two and three chunks
ExtractTexts ==
    {<<"a", "a">>,
     <<"a", "a", "\n", "\n", "b", "b">>,
     <<"a", "a", "\n", "\n", "b", "b", "\n", "\n", "c", "c">>}

\* materials a chunk may yield: MatA and MatA2 share their composite key
MatA == Material(<<"a">>, JStr(<<"P">>), Pct(90), 2, "high", "green")
MatA2 == Material(<<"A", " ">>, JStr(<<"p">>), Pct(70), 3, "medium", "amber")
MatB == Material(<<"b">>, JNull, Pct(50), 4, "low", "red")

ChunkOutcomes ==
    {OutEscape, OutRaise, OutItems(<<>>), OutItems(<<MatA>>),
     OutItems(<<MatA2, MatB>>), OutItems(<<MatB>>)}

\* the number of chunks of a document body
NChunks(tc) ==
    IF tc.kind = "str" THEN Len(SplitIntoExtractionChunks(tc.s, ExtractChunkSize)) ELSE 0

InitExtract ==
    /\ gemini_client \in {"none", "unavailable", "available"}
    /\ translated_content \in {JNull} \cup {JStr(t) : t \in ExtractTexts}
    /\ chunk_outcome \in [1..NChunks(translated_content) ->
                            IF gemini_client = "available" THEN ChunkOutcomes
                            ELSE {OutRaise}]
    /\ chunks = <<>>
    /\ task_pc = <<>>
    /\ chunk_results = <<>>
    /\ completion_order = <<>>
    /\ all_materials = <<>>
    /\ result = JNull
    /\ stats = InitialStats
    /\ extract_pc = "start"
    /\ IdleClassify /\ IdleMatch /\ IdleChunk /\ IdleDedup /\ IdleParse
    /\ IdleBuild /\ IdleRun /\ IdleRest

\* process_translated_content up to the gather (lines 27-46): a body that is
\* not a string makes len() raise, and the except branch returns
StartRun ==
    /\ extract_pc = "start"
    /\ IF translated_content.kind /= "str"
        THEN /\ stats' = [stats EXCEPT !.errors = @ + 1]
             /\ result' = ErrorResult(stats')
             /\ extract_pc' = "done"
             /\ UNCHANGED <<chunks, task_pc, chunk_results>>
        ELSE /\ chunks' = SplitIntoExtractionChunks(translated_content.s, ExtractChunkSize)
             /\ task_pc' = [i \in 1..Len(chunks') |-> "created"]
             /\ chunk_results' = [i \in 1..Len(chunks') |-> Returned(<<>>)]
             /\ extract_pc' = "gathering"
             /\ UNCHANGED <<stats, result>>
    /\ UNCHANGED <<translated_content, gemini_client, chunk_outcome, completion_order,
                   all_materials, notExtract>>

\* The task of chunk i runs to its first suspension.  The event loop starts
\* the tasks in the order gather created them.  A task that does not reach
\* the generation call finishes here.
TaskStart(i) ==
    /\ extract_pc = "gathering"
    /\ task_pc[i] = "created"
    /\ \A j \in 1..(i - 1) : task_pc[j] /= "created"
    /\ IF ReachesAwait(gemini_client, chunk_outcome[i])
        THEN /\ task_pc' = [task_pc EXCEPT ![i] = "awaiting"]
             /\ UNCHANGED <<chunk_results, completion_order>>
        ELSE /\ task_pc' = [task_pc EXCEPT ![i] = "done"]
             /\ chunk_results' =
                    [chunk_results EXCEPT ![i] = ExtractFromChunk(gemini_client, chunk_outcome[i])]
             /\ completion_order' = Append(completion_order, i)
    /\ UNCHANGED <<translated_content, gemini_client, chunk_outcome, chunks,
                   all_materials, result, stats, extract_pc, notExtract>>

\* The generation call of chunk i returns or raises, and the task runs to
\* its end (lines 227-254).  The calls complete in any order.
TaskComplete(i) ==
    /\ extract_pc = "gathering"
    /\ task_pc[i] = "awaiting"
    /\ task_pc' = [task_pc EXCEPT ![i] = "done"]
    /\ chunk_results' =
            [chunk_results EXCEPT ![i] = ExtractFromChunk(gemini_client, chunk_outcome[i])]
    /\ completion_order' = Append(completion_order, i)
    /\ UNCHANGED <<translated_content, gemini_client, chunk_outcome, chunks,
                   all_materials, result, stats, extract_pc, notExtract>>

\* gather returns once every task is done; the rest of
\* process_translated_content (lines 47-90)
Merge ==
    /\ extract_pc = "gathering"
    /\ \A i \in 1..Len(task_pc) : task_pc[i] = "done"
    /\ LET rs == Gathered(chunk_results, completion_order)
           merged == MergeLoop(rs)
           handed == IF merged = <<>> THEN DemoMaterials ELSE merged
       IN  /\ all_materials' = handed
           /\ stats' = [stats EXCEPT
                            !.extractions_performed = @ + 1,
                            !.materials_extracted = @ + Len(DeduplicateMaterials(handed)),
                            !.chunks_processed = @ + Len(chunks)]
           /\ result' = NormalResult(rs, Len(chunks), stats')
    /\ extract_pc' = "done"
    /\ UNCHANGED <<translated_content, gemini_client, chunk_outcome, chunks, task_pc,
                   chunk_results, completion_order, notExtract>>

NextExtract ==
    \/ StartRun
    \/ \E i \in 1..Len(task_pc) : TaskStart(i)
    \/ \E i \in 1..Len(task_pc) : TaskComplete(i)
    \/ Merge

SpecExtract == InitExtract /\ [][NextExtract]_vars

(***************************************************************************)
(* C7, C8, C9                                                              *)
(***************************************************************************)
\* what chunk i yields, by what its collaborators do
Cx_Yield(i) ==
    IF gemini_client /= "available" THEN DemoMaterials
    ELSE IF chunk_outcome[i].kind = "items" THEN chunk_outcome[i].items
    ELSE <<>>

RECURSIVE Cx_Concat(_)
\* the yields of the chunks from i on, in chunk-index order
Cx_Concat(i) == IF i > Len(chunks) THEN <<>> ELSE Cx_Yield(i) \o Cx_Concat(i + 1)

\* the run went through the chunks (it did not end in the except branch)
Cx_RanChunks == extract_pc = "done" /\ chunks /= <<>>

\* C7: when no chunk yields an item, the run returns the demo item set and
\* the returned mapping has demo_mode set.
C7_DemoModeSet ==
    (Cx_RanChunks /\ \A i \in 1..Len(chunks) : Cx_Yield(i) = <<>>) =>
        /\ result.materials = DemoMaterials
        /\ result.materials /= <<>>
        /\ result.demo_mode

\* C8: the run completes whatever chunks fail; every task ran to its end with
\* its own result (none was cancelled); a chunk whose call raised or decoded
\* to nothing contributes no item; the merged list is the other chunks' items;
\* successful_chunks counts the chunks that contributed an item.
C8_FailuresIsolated ==
    Cx_RanChunks =>
        /\ result.success /\ ~result.error
        /\ \A i \in 1..Len(chunks) :
            /\ task_pc[i] = "done"
            /\ chunk_results[i].items = Cx_Yield(i)
            /\ chunk_outcome[i].kind \in {"raise", "escape"} /\ gemini_client = "available"
                => chunk_results[i].items = <<>>
        /\ all_materials = (IF Cx_Concat(1) = <<>> THEN DemoMaterials ELSE Cx_Concat(1))
        /\ result.successful_chunks
            = Cardinality({i \in 1..Len(chunks) : Cx_Yield(i) /= <<>>})
        /\ result.chunks_processed = Len(chunks)

\* Reached: three chunks, one raising before its call, one decoding to
\* nothing, one yielding items, the third completing before the second.
C8_Witness ==
    /\ Cx_RanChunks
    /\ Len(chunks) = 3
    /\ chunk_outcome[1].kind = "escape"
    /\ chunk_outcome[2] = OutItems(<<>>)
    /\ chunk_outcome[3] = OutItems(<<MatA2, MatB>>)
    /\ completion_order = <<1, 3, 2>>
    /\ result.successful_chunks = 1
    /\ all_materials = <<MatA2, MatB>>

\* C9: the deduplicated list of the run is the deduplication of the chunks'
\* items taken in chunk-index order, whatever order the calls completed in.
C9_OrderIndependent ==
    Cx_RanChunks =>
        result.materials
            = DeduplicateMaterials(IF Cx_Concat(1) = <<>> THEN DemoMaterials
                                   ELSE Cx_Concat(1))

\* Reached: the second chunk's call completed before the first one's, both
\* yield an item of the same composite key, and the first chunk's survives.
C9_Witness ==
    /\ Cx_RanChunks
    /\ Len(chunks) = 2
    /\ completion_order = <<2, 1>>
    /\ chunk_outcome[1] = OutItems(<<MatA>>)
    /\ chunk_outcome[2] = OutItems(<<MatA2, MatB>>)
    /\ result.materials = <<MatA, MatB>>

(***************************************************************************)
(* _parse_json_response  (extraction_agent.py 256-329)                     *)
(*                                                                         *)
(* A response is a sequence of lexemes.  Each lexeme stands for the text   *)
(* written next to it; the decoder's regular expressions and json.loads    *)
(* only look at braces, brackets, commas, whitespace and fences, so they   *)
(* are computed lexeme by lexeme:                                          *)
(*    "["  "]"  "{"  "}"  ","   the character itself                       *)
(*    " "          one whitespace character                                *)
(*    "N"          "name": "x"       (a member with a non-empty name)      *)
(*    "E"          "name": ""        (a member with an empty name)         *)
(*    "K"          "k": true         (a member that is not a name)         *)
(*    "k:"         "k":              (a key; a value must follow)          *)
(*    "true"       true              (a scalar JSON value)                 *)
(*    "x"          x                 (text that is not JSON)               *)
(*    "FENCEJSON"  three backquotes and the word json (opening fence)      *)
(*    "FENCE"      three backquotes (closing fence)                        *)
(*    "DEEP"       a run of "[" longer than the interpreter's recursion    *)
(*                 limit, on which json.loads raises RecursionError        *)
(***************************************************************************)
Lexemes ==
    {"[", "]", "{", "}", ",", " ", "N", "E", "K", "k:", "true", "x",
     "FENCEJSON", "FENCE", "DEEP"}

\* decoded JSON values
PScalar == [t |-> "scalar", s |-> <<>>, members |-> <<>>, elems |-> <<>>]
PStr(x) == [t |-> "str", s |-> x, members |-> <<>>, elems |-> <<>>]
PDict(ms) == [t |-> "dict", s |-> <<>>, members |-> ms, elems |-> <<>>]
PList(es) == [t |-> "list", s |-> <<>>, members |-> <<>>, elems |-> es]
PNone == [t |-> "none", s |-> <<>>, members |-> <<>>, elems |-> <<>>]

\* the member a member lexeme decodes to
MemberOf(lx) ==
    CASE lx = "N" -> [key |-> "name", val |-> PStr(<<"x">>)]
      [] lx = "E" -> [key |-> "name", val |-> PStr(<<>>)]
      [] OTHER -> [key |-> "k", val |-> PScalar]

\* outcomes of the recursive-descent decoder: a value and the unread rest,
\* a JSONDecodeError, or a RecursionError
POk(v, rest) == [st |-> "ok", val |-> v, rest |-> rest]
PErr == [st |-> "JSONDecodeError", val |-> PScalar, rest |-> <<>>]
PRec == [st |-> "RecursionError", val |-> PScalar, rest |-> <<>>]

RECURSIVE ParseValue(_)
RECURSIVE ParseElems(_, _)
RECURSIVE ParseMembers(_, _)
RECURSIVE AfterMember(_, _)

\* json scanner: one value at the head of ts (leading whitespace skipped)
ParseValue(ts) ==
    LET t == LStrip(ts) IN
    IF t = <<>> THEN PErr
    ELSE CASE Head(t) = "true" -> POk(PScalar, Tail(t))
           [] Head(t) = "DEEP" -> PRec
           [] Head(t) = "[" ->
                LET u == LStrip(Tail(t)) IN
                IF u /= <<>> /\ Head(u) = "]" THEN POk(PList(<<>>), Tail(u))
                ELSE ParseElems(u, <<>>)
           [] Head(t) = "{" ->
                LET u == LStrip(Tail(t)) IN
                IF u /= <<>> /\ Head(u) = "}" THEN POk(PDict(<<>>), Tail(u))
                ELSE ParseMembers(u, <<>>)
           [] OTHER -> PErr

\* the elements of an array after "[" or ","
ParseElems(ts, acc) ==
    LET r == ParseValue(ts) IN
    IF r.st /= "ok" THEN r
    ELSE LET t == LStrip(r.rest) IN
         IF t = <<>> THEN PErr
         ELSE CASE Head(t) = "," -> ParseElems(Tail(t), Append(acc, r.val))
                [] Head(t) = "]" -> POk(PList(Append(acc, r.val)), Tail(t))
                [] OTHER -> PErr

\* the members of an object after "{" or ","
ParseMembers(ts, acc) ==
    LET t == LStrip(ts) IN
    IF t = <<>> THEN PErr
    ELSE CASE Head(t) \in {"N", "E", "K"} ->
                AfterMember(Tail(t), Append(acc, MemberOf(Head(t))))
           [] Head(t) = "k:" ->
                LET r == ParseValue(Tail(t)) IN
                IF r.st /= "ok" THEN r
                ELSE AfterMember(r.rest, Append(acc, [key |-> "k", val |-> r.val]))
           [] OTHER -> PErr

\* what follows a member: "," and another member, or "}"
AfterMember(ts, acc) ==
    LET t == LStrip(ts) IN
    IF t = <<>> THEN PErr
    ELSE CASE Head(t) = "," -> ParseMembers(Tail(t), acc)
           [] Head(t) = "}" -> POk(PDict(acc), Tail(t))
           [] OTHER -> PErr

\* json.loads(ts): one value, nothing but whitespace after it
JsonLoads(ts) ==
    LET r == ParseValue(ts) IN
    IF r.st = "ok" /\ LStrip(r.rest) /= <<>> THEN PErr ELSE r

\* obj.get(key): the value of the last member with that key, None if there
\* is none (a later duplicate key replaces an earlier one)
RECURSIVE MemberGet(_, _)
MemberGet(ms, key) ==
    IF ms = <<>> THEN PNone
    ELSE IF ms[Len(ms)].key = key THEN ms[Len(ms)].val
    ELSE MemberGet(SubSeq(ms, 1, Len(ms) - 1), key)

\* bool(v) of a decoded value
PTruthy(v) ==
    CASE v.t = "str" -> v.s /= <<>>
      [] v.t = "dict" -> v.members /= <<>>
      [] v.t = "list" -> v.elems /= <<>>
      [] v.t = "scalar" -> TRUE
      [] OTHER -> FALSE

\* lines 262-267: strip, drop an opening fence at the start, drop a closing
\* fence at the end with the whitespace before it, strip
CleanFences(r) ==
    LET c1 == Strip(r)
        c2 == IF c1 /= <<>> /\ Head(c1) = "FENCEJSON" THEN Tail(c1) ELSE c1
        c3 == IF c2 /= <<>> /\ c2[Len(c2)] = "FENCE"
              THEN RStrip(SubSeq(c2, 1, Len(c2) - 1)) ELSE c2
    IN Strip(c3)

\* lines 282-283: the array pattern opens and closes with "$$", an
\* end-of-text assertion, and requires a "{" after it: nothing matches
ArrayMatches(cleaned) == <<>>

\* lines 285-292: the first match that decodes to a non-empty list
RECURSIVE FirstArray(_)
FirstArray(ms) ==
    IF ms = <<>> THEN [st |-> "none", data |-> <<>>]
    ELSE LET r == JsonLoads(Head(ms)) IN
         CASE r.st = "RecursionError" -> [st |-> "RecursionError", data |-> <<>>]
           [] r.st = "ok" /\ r.val.t = "list" /\ r.val.elems /= <<>> ->
                [st |-> "return", data |-> r.val.elems]
           [] OTHER -> FirstArray(Tail(ms))

\* index of the first brace at or after position i, 0 if there is none
RECURSIVE NextBrace(_, _)
NextBrace(ts, i) ==
    IF i > Len(ts) THEN 0
    ELSE IF ts[i] \in {"{", "}"} THEN i
    ELSE NextBrace(ts, i + 1)

\* after the opening brace and the groups matched so far, q is the next
\* brace: "}" ends the match, "{" must open a group without braces inside
RECURSIVE ObjectEnd(_, _)
ObjectEnd(ts, q) ==
    IF q = 0 THEN 0
    ELSE IF ts[q] = "}" THEN q
    ELSE LET r == NextBrace(ts, q + 1) IN
         IF r = 0 \/ ts[r] /= "}" THEN 0
         ELSE ObjectEnd(ts, NextBrace(ts, r + 1))

\* lines 295-296: re.findall of object_pattern, the leftmost
\* non-overlapping objects with at most one level of nesting
RECURSIVE ObjectMatches(_)
ObjectMatches(ts) ==
    IF ts = <<>> THEN <<>>
    ELSE LET e == IF Head(ts) = "{" THEN ObjectEnd(ts, NextBrace(ts, 2)) ELSE 0 IN
         IF e > 0
         THEN <<SubSeq(ts, 1, e)>> \o ObjectMatches(SubSeq(ts, e + 1, Len(ts)))
         ELSE ObjectMatches(Tail(ts))

\* lines 298-305: decode each match; keep the dicts with a truthy name
RECURSIVE CollectObjects(_, _)
CollectObjects(ms, objects) ==
    IF ms = <<>> THEN [st |-> "ok", data |-> objects]
    ELSE LET r == JsonLoads(Head(ms)) IN
         CASE r.st = "RecursionError" -> [st |-> "RecursionError", data |-> <<>>]
           [] r.st = "ok" /\ r.val.t = "dict"
                /\ PTruthy(MemberGet(r.val.members, "name")) ->
                CollectObjects(Tail(ms), Append(objects, r.val))
           [] OTHER -> CollectObjects(Tail(ms), objects)

\* re.sub of a comma, optional whitespace and the closer by the closer
\* alone: one left-to-right pass
RECURSIVE DropCommaBefore(_, _)
DropCommaBefore(ts, closer) ==
    IF ts = <<>> THEN <<>>
    ELSE LET u == LStrip(Tail(ts)) IN
         IF Head(ts) = "," /\ u /= <<>> /\ Head(u) = closer
         THEN <<closer>> \o DropCommaBefore(Tail(u), closer)
         ELSE <<Head(ts)>> \o DropCommaBefore(Tail(ts), closer)

\* lines 313-314: trailing commas before "}", then before "]"
FixTrailingCommas(cleaned) == DropCommaBefore(DropCommaBefore(cleaned, "}"), "]")

\* lines 311-325: strategy 4
StrategyFix(cleaned) ==
    LET r == JsonLoads(FixTrailingCommas(cleaned)) IN
    CASE r.st = "RecursionError" -> [st |-> "RecursionError", data |-> <<>>]
      [] r.st = "ok" /\ r.val.t = "list" -> [st |-> "return", data |-> r.val.elems]
      [] OTHER -> [st |-> "return", data |-> <<>>]

\* lines 294-309: strategy 3, then strategy 4
StrategyObjects(cleaned) ==
    LET c == CollectObjects(ObjectMatches(cleaned), <<>>) IN
    CASE c.st = "RecursionError" -> c
      [] c.data /= <<>> -> [st |-> "return", data |-> c.data]
      [] OTHER -> StrategyFix(cleaned)

\* lines 281-292: strategy 2, then the rest
StrategyArrays(cleaned) ==
    LET a == FirstArray(ArrayMatches(cleaned)) IN
    IF a.st = "none" THEN StrategyObjects(cleaned) ELSE a

\* lines 258-325, the body of the outer try: strategy 1, then the rest.
\* json.JSONDecodeError is handled where it occurs; any other exception
\* leaves the body.
ParseStrategies(r) ==
    LET cleaned == CleanFences(r)
        d == JsonLoads(cleaned)
    IN CASE d.st = "RecursionError" -> [st |-> "RecursionError", data |-> <<>>]
         [] d.st = "ok" /\ d.val.t = "list" -> [st |-> "return", data |-> d.val.elems]
         [] d.st = "ok" /\ d.val.t = "dict" -> [st |-> "return", data |-> <<d.val>>]
         [] OTHER -> StrategyArrays(cleaned)

\* the decoder without its last handler: an exception that is not a
\* JSONDecodeError reaches the caller
ParseJsonResponseNoCatchAll(r) ==
    LET b == ParseStrategies(r) IN
    [raised |-> b.st /= "return", data |-> b.data]

\* _parse_json_response: lines 327-329 turn every exception into []
ParseJsonResponse(r) ==
    LET b == ParseStrategies(r) IN
    [raised |-> FALSE, data |-> IF b.st = "return" THEN b.data ELSE <<>>]

\* longest response enumerated exhaustively
MaxResponseLen == 3

\* longer responses: a plain array, a fenced array, objects inside prose,
\* trailing commas, nesting, and over-deep nesting at each strategy
ResponseSamples ==
    {<<"[", "{", "N", "}", ",", "{", "K", "}", "]">>,
     <<"FENCEJSON", " ", "[", "{", "N", "}", "]", " ", "FENCE">>,
     <<"FENCE", " ", "[", "{", "N", "}", "]", " ", "FENCE">>,
     <<"x", " ", "{", "N", "}", " ", "x", "{", "E", "}", "{", "K", "}">>,
     <<"x", "[", "{", "N", ",", "K", "}", ",", "{", "N", "}", "]">>,
     <<"[", "{", "N", "}", ",", " ", "]">>,
     <<"[", "{", "K", ",", "}", ",", "]">>,
     <<"{", "N", ",", " ", "}">>,
     <<"[", "{", "N", "}", ",", ",", "]">>,
     <<"x", "{", "N", ",", "k:", "{", "K", "}", "}">>,
     <<"x", "{", "k:", "{", "k:", "{", "N", "}", "}", "}">>,
     <<"{", "N", ",", "E", "}">>,
     <<"x", "{", "E", ",", "N", "}">>,
     <<"[", "true", ",", "[", "]", "]">>,
     <<"[", "{", "N", "}">>,
     <<"[", "DEEP", "]">>,
     <<"x", "{", "N", "}", "DEEP">>,
     <<"x", "{", "N", "}", "{", "k:", "DEEP", "}">>,
     <<"[", "{", "N", "}", ",", "DEEP", ",", "]">>,
     <<"[", "x", ",", "]", "DEEP">>,
     <<"x", "[", "{", "N", "}", ",", "{", "K", "}", "]", "x">>,
     <<"x", " ", "[", "{", "K", "}", "]">>,
     <<"FENCEJSON", "[", "{", "K", "}", ",", "{", "N", "}", "]", "FENCE">>,
     <<"{", "K", ",", "k:", "{", "N", "}", "}">>}

Responses == SeqsUpTo(Lexemes, MaxResponseLen) \cup ResponseSamples

InitParse ==
    /\ IdleClassify /\ IdleMatch /\ IdleChunk /\ IdleDedup /\ IdleExtract
    /\ IdleBuild /\ IdleRun /\ IdleRest
    /\ response \in Responses
    /\ parse_result = JNull
    /\ parse_pc = "start"

\* one call of _parse_json_response(response)
Parse ==
    /\ parse_pc = "start"
    /\ parse_result' = ParseJsonResponse(response)
    /\ parse_pc' = "parsed"
    /\ UNCHANGED <<response, notParse>>

NextParse == Parse

SpecParse == InitParse /\ [][NextParse]_vars

\* C10: whatever the response, the call ends by returning a list; no
\* exception reaches the caller.
C10_NeverRaises ==
    parse_pc = "parsed" =>
        /\ ~parse_result.raised
        /\ DOMAIN parse_result.data = 1..Len(parse_result.data)

\* Reached: prose around a named object and an object nested too deeply to
\* decode; the exception that is not a decode error is turned into [].
C10_Witness ==
    /\ parse_pc = "parsed"
    /\ response = <<"x", "{", "N", "}", "{", "k:", "DEEP", "}">>
    /\ ParseStrategies(response).st = "RecursionError"
    /\ parse_result = [raised |-> FALSE, data |-> <<>>]

(***************************************************************************)
(* C11, C12                                                                *)
(***************************************************************************)
\* what each strategy gives on the cleaned text c, taken alone:
\* whether it succeeds, and the list it then returns
C11_Attempt(c, k) ==
    CASE k = 1 ->
            LET d == JsonLoads(c) IN
            [ok |-> d.st = "ok" /\ d.val.t \in {"list", "dict"},
             data |-> IF d.st = "ok" /\ d.val.t = "list" THEN d.val.elems
                      ELSE <<d.val>>]
      [] k = 2 ->
            LET a == FirstArray(ArrayMatches(c)) IN
            [ok |-> a.st = "return", data |-> a.data]
      [] k = 3 ->
            LET o == CollectObjects(ObjectMatches(c), <<>>) IN
            [ok |-> o.data /= <<>>, data |-> o.data]
      [] OTHER ->
            LET d == JsonLoads(FixTrailingCommas(c)) IN
            [ok |-> d.st = "ok" /\ d.val.t = "list",
             data |-> IF d.st = "ok" THEN d.val.elems ELSE <<>>]

\* C11: the strategies are tried in the order 1, 2, 3, 4 and the first that
\* succeeds gives the result ([] when none does), also when an earlier
\* strategy fails on text nested too deeply to decode; a direct parse that
\* yields an array is returned as it is, and one that yields an object is
\* returned as a one-element list, whatever the later strategies would give.
C11_FirstSuccessWins ==
    parse_pc = "parsed" =>
        LET c == CleanFences(response)
            d == JsonLoads(c)
            wins == {k \in 1..4 : C11_Attempt(c, k).ok}
        IN  /\ d.st = "ok" /\ d.val.t = "list" => parse_result.data = d.val.elems
            /\ d.st = "ok" /\ d.val.t = "dict" => parse_result.data = <<d.val>>
            /\ parse_result.data =
                    (IF wins = {} THEN <<>>
                     ELSE C11_Attempt(c, CHOOSE k \in wins : \A l \in wins : k <= l).data)

\* the bracket-delimited sub-texts of c that decode to a non-empty array of
\* objects, as <<start, end>>
C12_Arrays(c) ==
    {se \in (1..Len(c)) \X (1..Len(c)) :
        /\ se[1] < se[2]
        /\ c[se[1]] = "[" /\ c[se[2]] = "]"
        /\ LET d == JsonLoads(SubSeq(c, se[1], se[2])) IN
            /\ d.st = "ok" /\ d.val.t = "list" /\ d.val.elems /= <<>>
            /\ \A i \in 1..Len(d.val.elems) : d.val.elems[i].t = "dict"}

\* the first of them
C12_FirstArray(c) ==
    CHOOSE se \in C12_Arrays(c) :
        \A o \in C12_Arrays(c) : se[1] < o[1] \/ (se[1] = o[1] /\ se[2] <= o[2])

\* C12: when the direct parse fails and the text holds an array of objects
\* inside other text, the result is that whole array, its objects without a
\* name included.
C12_EmbeddedArrayReturned ==
    parse_pc = "parsed" =>
        LET c == CleanFences(response) IN
        (JsonLoads(c).st = "JSONDecodeError" /\ C12_Arrays(c) /= {}) =>
            parse_result.data =
                JsonLoads(SubSeq(c, C12_FirstArray(c)[1], C12_FirstArray(c)[2])).val.elems

(***************************************************************************)
(* _create_enhanced_material  (extraction_agent.py 331-385) and the        *)
(* ExtractedMaterial schema  (schemas.py 37-66)                            *)
(*                                                                         *)
(* A decoded record is a dict of Python values; a key it does not hold     *)
(* reads JAbsent.  confidence_score and quantity are numbers in units of   *)
(* 1/84000, as the matcher's scores are (Pct(100) is 1.0).                 *)
(***************************************************************************)
UnknownMaterial == <<"U", "n", "k", "n", "o", "w", "n", " ", "M", "a", "t", "e", "r", "i", "a", "l">>
ErrorMaterial == <<"E", "r", "r", "o", "r", " ", "M", "a", "t", "e", "r", "i", "a", "l">>
Uncategorized == <<"u", "n", "c", "a", "t", "e", "g", "o", "r", "i", "z", "e", "d">>

\* the value of a run of decimal digits read after acc, -1 if one of the
\* characters is not a digit
RECURSIVE DigitsValue(_, _)
DigitsValue(ds, acc) ==
    IF ds = <<>> THEN acc
    ELSE LET d == CASE Head(ds) = "0" -> 0 [] Head(ds) = "1" -> 1 [] Head(ds) = "2" -> 2
                    [] Head(ds) = "3" -> 3 [] Head(ds) = "4" -> 4 [] Head(ds) = "5" -> 5
                    [] Head(ds) = "6" -> 6 [] Head(ds) = "7" -> 7 [] Head(ds) = "8" -> 8
                    [] Head(ds) = "9" -> 9 [] OTHER -> -1
         IN  IF d < 0 THEN -1 ELSE DigitsValue(Tail(ds), 10 * acc + d)

\* float(s) of a string: optional sign, digits with at most one point and
\* at most three digits after it, blanks around; anything else is a
\* ValueError (exponents, inf, nan and underscores are not among the
\* strings of the model)
FloatOfStr(s) ==
    LET t == Strip(s)
        signed == t /= <<>> /\ Head(t) \in {"+", "-"}
        u == IF signed THEN Tail(t) ELSE t
        dots == {i \in 1..Len(u) : u[i] = "."}
        dot == IF dots = {} THEN Len(u) + 1 ELSE CHOOSE i \in dots : \A j \in dots : i <= j
        ip == SubSeq(u, 1, dot - 1)
        fp == SubSeq(u, dot + 1, Len(u))
        iv == DigitsValue(ip, 0)
        fv == DigitsValue(fp, 0)
        scale == CASE Len(fp) = 0 -> 1 [] Len(fp) = 1 -> 10 [] Len(fp) = 2 -> 100
                   [] OTHER -> 1000
        mag == iv * Pct(100) + (fv * Pct(100)) \div scale
    IN  IF ip \o fp = <<>> \/ iv < 0 \/ fv < 0 \/ Len(fp) > 3
        THEN [ok |-> FALSE, val |-> 0]
        ELSE [ok |-> TRUE, val |-> IF signed /\ Head(t) = "-" THEN 0 - mag ELSE mag]

\* float(v): ok is FALSE where Python raises ValueError or TypeError
FloatOf(v) ==
    CASE v.kind = "num" -> [ok |-> TRUE, val |-> v.n]
      [] v.kind = "bool" -> [ok |-> TRUE, val |-> IF v.b THEN Pct(100) ELSE 0]
      [] v.kind = "str" -> FloatOfStr(v.s)
      [] OTHER -> [ok |-> FALSE, val |-> 0]

\* an ExtractedMaterial object: the fields the engine reads or reports
ExtractedMaterial(name, category, specifications, confidence_score, part_number, quantity, flags, vendor_name, triple) ==
    [name |-> name,
     qa_material_name |-> name,
     category |-> category,
     specifications |-> specifications,
     confidence_score |-> confidence_score,
     part_number |-> part_number,
     quantity |-> quantity,
     consumable_jigs_tools |-> flags[1],
     pn_mismatch |-> flags[2],
     obsolete_pn |-> flags[3],
     kit_available |-> flags[4],
     vendor_name |-> vendor_name,
     classification_label |-> triple.label,
     confidence_level |-> triple.confidence_level,
     action_path_rag |-> triple.action_path]

\* the schema's defaults for the classification fields (schemas.py 63-65)
SchemaDefaultTriple == Triple(13, "medium", "amber")

\* the result of a call: the object returned, or an exception
Created(mat) == [raised |-> FALSE, material |-> mat]
CreateRaised == [raised |-> TRUE, material |-> JNull]

\* pydantic's validation of the keyword arguments of line 375: name and
\* category are strings, specifications a dict, part_number and vendor_name
\* a string or None, confidence_score within [0, 1] (ge=0.0, le=1.0)
SchemaAccepts(name, category, specifications, confidence, part_number, vendor_name) ==
    /\ name.kind = "str"
    /\ category.kind = "str"
    /\ specifications.kind = "dict"
    /\ confidence >= 0 /\ confidence <= Pct(100)
    /\ part_number.kind \in {"null", "str"}
    /\ vendor_name.kind \in {"null", "str"}

\* lines 377-385: the object built after an exception in the try block; a
\* name that is not a string makes this construction raise as well
FallbackMaterial(md) ==
    LET name == DictGet(md, "name", JStr(ErrorMaterial)) IN
    IF name.kind /= "str" THEN CreateRaised
    ELSE Created(ExtractedMaterial(name.s, Uncategorized, JDict(0), Pct(30), JNull, JNull,
                                   <<FALSE, FALSE, FALSE, FALSE>>, JNull,
                                   SchemaDefaultTriple))

\* ExtractionAgent._create_enhanced_material.  A record that is not a dict
\* has no get(): the call inside the handler of line 377 raises again.
CreateEnhancedMaterial(md) ==
    IF "kind" \in DOMAIN md THEN CreateRaised
    ELSE LET material_name == DictGet(md, "name", JStr(UnknownMaterial))
             q == DictGetNone(md, "quantity")
             quantity == IF q.kind = "null" THEN JNull
                         ELSE IF FloatOf(q).ok THEN JNum(FloatOf(q).val) ELSE JNull
             category == DictGet(md, "category", JStr(Uncategorized))
             specifications == DictGet(md, "specifications", JDict(0))
             conf == FloatOf(DictGet(md, "confidence_score", JNum(Pct(50))))
             part_number == DictGetNone(md, "part_number")
             vendor_name == DictGetNone(md, "vendor_name")
         IN  IF conf.ok /\ SchemaAccepts(material_name, category, specifications,
                                         conf.val, part_number, vendor_name)
             THEN Created(ExtractedMaterial(
                    material_name.s, category.s, specifications, conf.val,
                    part_number, quantity,
                    <<PyBool(DictGet(md, "consumable_jigs_tools", JBool(FALSE))),
                      PyBool(DictGet(md, "pn_mismatch", JBool(FALSE))),
                      PyBool(DictGet(md, "obsolete_pn", JBool(FALSE))),
                      PyBool(DictGet(md, "kit_available", JBool(FALSE)))>>,
                    vendor_name, ClassifyMaterial(md)))
             ELSE FallbackMaterial(md)

\* lines 239-250 of _extract_from_chunk_enhanced: one object per record, a
\* record whose construction raises is skipped
RECURSIVE CreateMaterials(_)
CreateMaterials(records) ==
    IF records = <<>> THEN <<>>
    ELSE LET c == CreateEnhancedMaterial(Head(records)) IN
         (IF c.raised THEN <<>> ELSE <<c.material>>) \o CreateMaterials(Tail(records))

\* the dict (or other value) the builder receives for a decoded JSON value
RecordOf(v) ==
    IF v.t /= "dict" THEN JBool(TRUE)
    ELSE LET n == MemberGet(v.members, "name") IN
         [name |-> IF n.t = "str" THEN JStr(n.s) ELSE JAbsent,
          category |-> JAbsent, specifications |-> JAbsent,
          confidence_score |-> JAbsent, part_number |-> JAbsent,
          quantity |-> JAbsent, consumable_jigs_tools |-> JAbsent,
          vendor_name |-> JAbsent, kit_available |-> JAbsent,
          pn_mismatch |-> JAbsent, obsolete_pn |-> JAbsent]

\* the most records of one chunk
MaxRecords == 2

\* a record with the given name, confidence_score, category, part_number,
\* quantity and consumable flag, and no other key
BuildRecord(name, confidence_score, category, part_number, quantity, consumable) ==
    [name |-> name, category |-> category, specifications |-> JAbsent,
     confidence_score |-> confidence_score, part_number |-> part_number,
     quantity |-> quantity, consumable_jigs_tools |-> consumable,
     vendor_name |-> JAbsent, kit_available |-> JAbsent,
     pn_mismatch |-> JAbsent, obsolete_pn |-> JAbsent]

\* Records as the generation call words them: the name missing, null, empty
\* or given; the confidence missing, inside, on and outside the bounds, as a
\* string and null; a null category; a quantity that is not a number; a
\* consumable with a part number and a quantity missing, null, zero, a
\* number in a string, a number with its unit.
BuildRecords ==
    {BuildRecord(n, c, JAbsent, JStr(<<"P">>), JNum(Pct(400)), JBool(TRUE)) :
        n \in {JAbsent, JNull, JStr(<<>>), JStr(<<"a">>)},
        c \in {JAbsent, JNum(0), JNum(Pct(90)), JNum(Pct(100)), JNum(Pct(150)),
               JNum(0 - Pct(10)), JStr(<<"0", ".", "5">>), JStr(<<"h", "i">>), JNull}}
    \cup
    {BuildRecord(JStr(<<"b">>), JNum(Pct(70)), cat, pn, q, JAbsent) :
        cat \in {JStr(<<"t", "o", "o", "l", "s">>), JNull},
        pn \in {JAbsent, JNull},
        q \in {JAbsent, JNum(0), JStr(<<"4", " ", "p", "c", "s">>)}}
    \cup
    {BuildRecord(JStr(<<"c">>), JAbsent, JAbsent, JStr(<<"P">>), q, JBool(TRUE)) :
        q \in {JAbsent, JNull, JNum(0), JStr(<<"4">>), JStr(<<"4", " ", "p", "c", "s">>)}}

\* the records the decoder returns for the sample responses
DecodedRecords(r) ==
    LET data == ParseJsonResponse(r).data IN [i \in 1..Len(data) |-> RecordOf(data[i])]

InitBuild ==
    /\ IdleClassify /\ IdleMatch /\ IdleChunk /\ IdleDedup /\ IdleExtract /\ IdleParse
    /\ IdleRun /\ IdleRest
    /\ materials_data \in SeqsUpTo(BuildRecords, MaxRecords)
                            \cup {DecodedRecords(r) : r \in ResponseSamples}
    /\ built_materials = <<>>
    /\ build_pc = "start"

\* the loop over materials_data in _extract_from_chunk_enhanced
Build ==
    /\ build_pc = "start"
    /\ built_materials' = CreateMaterials(materials_data)
    /\ build_pc' = "built"
    /\ UNCHANGED <<materials_data, notBuild>>

NextBuild == Build

SpecBuild == InitBuild /\ [][NextBuild]_vars

(***************************************************************************)
(* C13, C14, C15                                                           *)
(***************************************************************************)
\* C13: no created item has an empty name, and a record without a name key
\* gives an item named by the placeholder.
C13_NameNeverEmpty ==
    build_pc = "built" =>
        /\ \A i \in 1..Len(built_materials) : built_materials[i].name /= <<>>
        /\ \A i \in 1..Len(materials_data) :
            ("kind" \notin DOMAIN materials_data[i]
                /\ materials_data[i].name.kind = "absent") =>
                \E j \in 1..Len(built_materials) :
                    built_materials[j].name = UnknownMaterial

\* C14: every created item has its confidence within [0, 1], and a single
\* record whose numeric confidence is outside gives an item with the nearest
\* bound and the record's other fields.
C14_ConfidenceClamped ==
    build_pc = "built" =>
        /\ \A i \in 1..Len(built_materials) :
            /\ built_materials[i].confidence_score >= 0
            /\ built_materials[i].confidence_score <= Pct(100)
        /\ (/\ Len(materials_data) = 1
            /\ "kind" \notin DOMAIN materials_data[1]
            /\ materials_data[1].name.kind = "str"
            /\ materials_data[1].confidence_score.kind = "num"
            /\ materials_data[1].part_number.kind = "str") =>
                /\ Len(built_materials) = 1
                /\ built_materials[1].confidence_score
                    = Max(0, Min(Pct(100), materials_data[1].confidence_score.n))
                /\ built_materials[1].part_number = materials_data[1].part_number

\* the triples the rule engine can return
C15_EngineTriples ==
    {ClassifyMaterial(md) : md \in MaterialDataInputs} \cup {Triple(13, "low", "red")}

\* C15: every created item carries a triple the rule engine can return.
C15_TripleFromEngine ==
    build_pc = "built" =>
        \A i \in 1..Len(built_materials) :
            Triple(built_materials[i].classification_label,
                   built_materials[i].confidence_level,
                   built_materials[i].action_path_rag) \in C15_EngineTriples


(***************************************************************************)
(* The matching run: ItemMatcher.match_items_with_knowledge_base           *)
(*                                                                         *)
(* The knowledge store is a collaborator whose code is not part of the     *)
(* matcher: each call of it either raises or returns, and what             *)
(* find_similar_items returns is an input of the step.  The result dict    *)
(* is the item's own entries followed by the entries of lines 54-69; the   *)
(* clock reading 'processing_timestamp' is left out.                       *)
(***************************************************************************)
\* item.get('qa_material_name', item.get('name', '')), as the value it is
MaterialNameValue(it) == DictGet(it, "qa_material_name", DictGet(it, "name", JStr(<<>>)))

\* what one call of find_similar_items did
KbRaises == [raises |-> TRUE, found |-> <<>>]
KbReturns(found) == [raises |-> FALSE, found |-> found]

\* A plausible slip: the primary source reported as the store whenever the
\* store has a candidate.
DetermineMatchSourceKbFirst(kb, sup) ==
    IF kb /= <<>> THEN "knowledge_base"
    ELSE IF sup /= <<>> THEN "supplier_bom"
    ELSE "no_match"

\* ItemMatcher._determine_match_source
DetermineMatchSource(kb, sup) ==
    IF kb /= <<>> /\ sup /= <<>> THEN "hybrid"
    ELSE IF kb /= <<>> THEN "knowledge_base"
    ELSE IF sup /= <<>> THEN "supplier_bom"
    ELSE "no_match"

\* format(confidence, '.1%') multiplies the double by 100 and rounds the
\* product's exact value to one decimal, half to even.  A confidence that
\* lies halfway between two tenths of a per cent is (2k + 1)/2000; the
\* double that stands for it, times 100, is the tie itself (0.5625 gives
\* 56.25, printed 56.2%) or lies just under or over it (0.8505 prints
\* 85.0%).  PercentTieUp holds the k in 0..999 whose double prints the upper
\* tenth, the double being the one nearest to the confidence (the product
\* similarity * 0.9 of a supplier row is that double for every word union of
\* up to 23 words).
PercentTieUp ==
    {0, 3, 6, 7, 8, 10, 13, 14, 15, 16, 17, 20, 23, 24, 27, 28, 33, 34, 37, 38, 39,
     41, 44, 46, 47, 48, 49, 50, 54, 56, 57, 58, 61, 64, 65, 66, 67, 68, 69, 77, 79,
     80, 81, 84, 85, 87, 91, 95, 96, 97, 99, 100, 101, 106, 107, 110, 111, 114, 115,
     116, 117, 121, 125, 126, 127, 129, 130, 131, 133, 134, 135, 136, 137, 138, 139,
     140, 147, 151, 155, 156, 157, 159, 160, 161, 163, 165, 166, 167, 168, 169, 170,
     171, 177, 180, 183, 185, 187, 188, 190, 193, 195, 196, 197, 198, 199, 200, 201,
     207, 210, 215, 217, 218, 220, 223, 225, 226, 227, 228, 230, 231, 233, 237, 240,
     245, 247, 248, 250, 253, 255, 256, 257, 258, 260, 261, 263, 264, 265, 266, 267,
     268, 269, 270, 271, 272, 273, 274, 275, 276, 277, 278, 279, 280, 297, 305, 307,
     308, 310, 313, 315, 317, 318, 323, 324, 325, 327, 328, 329, 330, 333, 334, 335,
     336, 337, 338, 339, 340, 341, 343, 347, 353, 357, 358, 363, 367, 368, 369, 373,
     374, 377, 378, 379, 383, 384, 385, 387, 388, 389, 390, 393, 394, 395, 397, 398,
     399, 400, 401, 403, 404, 405, 407, 417, 418, 423, 427, 428, 429, 433, 434, 437,
     438, 439, 443, 444, 447, 448, 449, 450, 453, 454, 455, 457, 458, 459, 460, 461,
     463, 464, 465, 466, 467, 468, 477, 478, 483, 487, 488, 493, 494, 497, 498, 499,
     527, 537, 543, 547, 548, 553, 554, 557, 558, 559, 563, 564, 567, 568, 569, 573,
     574, 575, 577, 578, 579, 580, 583, 584, 585, 586, 587, 588, 589, 590, 591, 593,
     594, 595, 596, 597, 598, 599, 600, 601, 603, 604, 605, 606, 607, 608, 609, 610,
     611, 612, 613, 614, 615, 616, 617, 618, 619, 620, 621, 622, 623, 624, 644, 647,
     649, 654, 657, 659, 664, 667, 669, 671, 674, 676, 677, 679, 681, 684, 686, 687,
     689, 691, 694, 696, 697, 699, 701, 704, 706, 707, 708, 709, 711, 713, 714, 716,
     717, 718, 719, 721, 723, 724, 726, 727, 728, 729, 731, 733, 734, 735, 736, 737,
     738, 739, 740, 741, 743, 744, 745, 746, 747, 748, 749, 757, 767, 769, 774, 777,
     779, 784, 787, 789, 794, 796, 797, 799, 801, 804, 806, 807, 809, 811, 814, 816,
     817, 819, 821, 824, 826, 827, 829, 831, 833, 834, 836, 837, 838, 839, 841, 843,
     844, 846, 847, 848, 849, 851, 853, 854, 856, 857, 858, 859, 860, 861, 863, 864,
     865, 866, 867, 868, 869, 870, 871, 873, 874, 877, 887, 894, 897, 899, 904, 907,
     909, 914, 917, 919, 921, 924, 926, 927, 929, 931, 934, 936, 937, 939, 941, 944,
     946, 947, 949, 951, 954, 956, 957, 958, 959, 961, 963, 964, 966, 967, 968, 969,
     971, 973, 974, 976, 977, 978, 979, 981, 983, 984, 985, 986, 987, 988, 989, 990,
     991, 993, 994, 995, 996, 997, 998, 999}

\* format(confidence, '.1%'): the confidence in tenths of a per cent
PercentTenths(c) ==
    LET floor == (c * 1000) \div 84000
        rest == (c * 1000) % 84000
    IN  IF rest = 42000 THEN (IF (c - 42) \div 84 \in PercentTieUp THEN floor + 1 ELSE floor)
        ELSE IF rest > 42000 THEN floor + 1 ELSE floor

\* A plausible slip: an empty winner always reported as no match found.
GenerateMatchReasoningNoneFound(kb, sup, best) ==
    IF best.empty
        THEN [sentence |-> "No matches found in knowledge base or supplier BOM", percent |-> 0]
    ELSE [sentence |->
            CASE best.match_source = "knowledge_base" ->
                    (IF best.match_type = "exact"
                        THEN "Exact match found in knowledge base from previous workflow"
                        ELSE "Similar item found in knowledge base based on name similarity")
              [] best.match_source = "supplier_bom" ->
                    (IF best.match_type = "part_number"
                        THEN "Part number match found in current supplier BOM"
                        ELSE "Description match found in current supplier BOM")
              [] best.match_source = "supplier_bom_low_confidence" ->
                    "Low confidence match found in supplier BOM - requires review"
              [] OTHER -> "Match found with",
          percent |-> PercentTenths(best.confidence_score)]

\* ItemMatcher._generate_match_reasoning: the sentence chosen and the
\* percentage written into it
GenerateMatchReasoning(kb, sup, best) ==
    IF best.empty
        THEN [sentence |-> IF kb = <<>> /\ sup = <<>> THEN "No matches found in knowledge base or supplier BOM"
                           ELSE "Matches found but confidence scores below minimum threshold",
              percent |-> 0]
    ELSE [sentence |->
            CASE best.match_source = "knowledge_base" ->
                    (IF best.match_type = "exact"
                        THEN "Exact match found in knowledge base from previous workflow"
                        ELSE "Similar item found in knowledge base based on name similarity")
              [] best.match_source = "supplier_bom" ->
                    (IF best.match_type = "part_number"
                        THEN "Part number match found in current supplier BOM"
                        ELSE "Description match found in current supplier BOM")
              [] best.match_source = "supplier_bom_low_confidence" ->
                    "Low confidence match found in supplier BOM - requires review"
              [] best.match_source = "hybrid" ->
                    "Match verified through both knowledge base and supplier BOM"
              [] OTHER -> "Match found with",
          percent |-> PercentTenths(best.confidence_score)]

\* the dict of lines 49-70
MatchResult(it, material_name, kb, sup, best, workflow_id) ==
    [name |-> it.name,
     part_number |-> it.part_number,
     category |-> it.category,
     qa_material_name |-> material_name,
     knowledge_base_matches |-> Len(kb),
     supplier_matches |-> Len(sup),
     has_previous_match |-> Len(kb) > 0,
     match_source |-> DetermineMatchSource(kb, sup),
     confidence_score |-> JNum(IF best.empty THEN 0 ELSE best.confidence_score),
     supplier_description |-> best.supplier_description,
     supplier_part_number |-> best.supplier_part_number,
     reasoning |-> GenerateMatchReasoning(kb, sup, best),
     matcher_version |-> "2.0",
     workflow_id |-> workflow_id]

\* what the body of the loop does when nothing raises out of it
MatchedItem(it, bom, kb, workflow_id) ==
    LET sup == FindSupplierMatches(it, bom)
        best == SelectBestMatch(it, kb, sup)
    IN  [raised |-> FALSE, kb_matches |-> kb, supplier_matches |-> sup, best_match |-> best,
         match_result |-> <<MatchResult(it, MaterialNameValue(it), kb, sup, best, workflow_id)>>]

\* an exception leaves the loop, and the call
ItemRaised ==
    [raised |-> TRUE, kb_matches |-> <<>>, supplier_matches |-> <<>>, best_match |-> EmptyMatch,
     match_result |-> <<>>]

\* A plausible slip: the query of the store made outside a try block.
MatchOneUnguarded(it, bom, answer, workflow_id) ==
    IF answer.raises \/ MaterialNameValue(it).kind /= "str" THEN ItemRaised
    ELSE MatchedItem(it, bom, answer.found, workflow_id)

\* One pass of the loop of lines 27-72.  A failed query reads as no
\* candidate (lines 33-37); a name that is not a string fails at .lower()
\* in _find_supplier_matches (line 80), outside any try block.
MatchOne(it, bom, answer, workflow_id) ==
    IF MaterialNameValue(it).kind /= "str" THEN ItemRaised
    ELSE MatchedItem(it, bom, IF answer.raises THEN <<>> ELSE answer.found, workflow_id)

\* the most items of one matching run
MaxItems == 2

RunItem(qa, name, pn, confidence) ==
    [qa_material_name |-> qa, name |-> name, part_number |-> pn,
     confidence_score |-> JNum(confidence), category |-> JStr(<<"c">>)]

\* Items of a run: qa_material_name missing, empty, None or given; the part
\* number the one of a supplier row, None or missing.
RunItems ==
    {RunItem(JAbsent, JStr(<<"a", " ", "b">>), JStr(<<"P", "1">>), Pct(90)),
     RunItem(JStr(<<"a", " ", "b", " ", "c">>), JStr(<<"a", " ", "b", " ", "c">>), JNull, Pct(50)),
     RunItem(JStr(<<>>), JStr(<<"a", " ", "b">>), JStr(<<"P", "1">>), Pct(95)),
     RunItem(JNull, JStr(<<"a", " ", "b">>), JNull, Pct(90)),
     RunItem(JStr(<<"z">>), JStr(<<"z">>), JAbsent, Pct(80)),
     RunItem(JStr(<<"a", " ", "b", " ", "c">>), JStr(<<"a", " ", "b", " ", "c">>),
             JStr(<<"P", "1">>), Pct(100))}

\* Supplier tables of a run: none, a row with the items' part number, rows
\* that score low, a description row before a part-number row.
RunTables ==
    {<<>>,
     <<SupplierRow(JStr(<<"a", " ", "b">>), JStr(<<"P", "1">>))>>,
     <<SupplierRow(JStr(<<"b", " ", "c", " ", "d">>), JStr(<<>>)),
       SupplierRow(JStr(<<"a">>), JStr(<<"P", "1", "2">>))>>,
     <<SupplierRow(JStr(<<"A", " ", "B", " ", "C">>), JStr(<<"Q">>)),
       SupplierRow(JStr(<<"a", " ", "b">>), JStr(<<"P", "1">>))>>}

\* What find_similar_items does for one item: it raises, or returns no
\* candidate, an exact one above 0.80, fuzzy ones on both sides of 0.50,
\* a fuzzy one at 0.50 with an exact one at 0.80.
KbAnswers ==
    {KbRaises,
     KbReturns(<<>>),
     KbReturns(<<KbRecord(2, "exact", Pct(90))>>),
     KbReturns(<<KbRecord(5, "fuzzy", Pct(55))>>),
     KbReturns(<<KbRecord(6, "fuzzy", Pct(50))>>),
     KbReturns(<<KbRecord(6, "fuzzy", Pct(50)), KbRecord(3, "exact", Pct(80))>>)}

\* a call the store received, and whether it ended with an exception
KbCall(op, name, pn, raised) ==
    [op |-> op, name |-> name, part_number |-> pn, raised |-> raised]

\* A plausible slip: the registration of the batch left out.
RegisterBatchSkipped(calls, raised) == calls

\* lines 20-25: the one add_items call of a run, whether or not it raises
RegisterBatch(calls, raised) ==
    Append(calls, KbCall("add_items", JAbsent, JAbsent, raised))

\* the store after add_items(items, workflow_id): an append-then-query store
\* holds the batch once the call has returned, and nothing of it when the
\* call raised
StoreAfterAdd(store, items, raised) == IF raised THEN store ELSE store \o items

InitMatchRun ==
    /\ extracted_items \in SeqsUpTo(RunItems, MaxItems)
    /\ supplier_bom \in RunTables
    /\ kb_add \in {"ok", "raise"}
    /\ kb_find = <<>>
    /\ kb_calls = <<>>
    /\ kb_items = <<>>
    /\ enhanced_matches = <<>>
    /\ run_pc = "start"
    /\ item = JNull
    /\ kb_matches = <<>>
    /\ supplier_matches = <<>>
    /\ best_match = JNull
    /\ match_pc = "idle"
    /\ IdleClassify /\ IdleChunk /\ IdleDedup /\ IdleExtract /\ IdleParse /\ IdleBuild
    /\ IdleRest

\* lines 17-25: the batch is registered; a failure of the store is logged
\* and the loop is entered all the same
AddItems ==
    /\ run_pc = "start"
    /\ kb_calls' = RegisterBatch(kb_calls, kb_add = "raise")
    /\ kb_items' = StoreAfterAdd(kb_items, extracted_items, kb_add = "raise")
    /\ run_pc' = "loop"
    /\ UNCHANGED <<extracted_items, kb_add, kb_find, enhanced_matches, matchVars, notRun>>

\* lines 27-72: one pass of the loop, for the next item
MatchItem ==
    /\ run_pc = "loop"
    /\ Len(enhanced_matches) < Len(extracted_items)
    /\ \E answer \in KbAnswers :
        LET it == extracted_items[Len(enhanced_matches) + 1]
            r == MatchOne(it, supplier_bom, answer, "w1")
        IN  /\ item' = it
            /\ kb_find' = Append(kb_find, answer)
            /\ kb_calls' = Append(kb_calls,
                    KbCall("find_similar_items", MaterialNameValue(it),
                           DictGet(it, "part_number", JStr(<<>>)), answer.raises))
            /\ kb_matches' = r.kb_matches
            /\ supplier_matches' = r.supplier_matches
            /\ best_match' = r.best_match
            /\ enhanced_matches' = enhanced_matches \o r.match_result
            /\ run_pc' = IF r.raised THEN "raised" ELSE "loop"
    /\ UNCHANGED <<extracted_items, kb_add, kb_items, supplier_bom, match_pc, notRun>>

\* line 75: return enhanced_matches
ReturnMatches ==
    /\ run_pc = "loop"
    /\ Len(enhanced_matches) = Len(extracted_items)
    /\ run_pc' = "returned"
    /\ UNCHANGED <<extracted_items, kb_add, kb_find, kb_calls, kb_items, enhanced_matches,
                   matchVars, notRun>>

\* routers/knowledge_base.py, POST /clear: kb.clear_all_data() empties the
\* store.  The endpoint is a coroutine of the event loop on which
\* match_items_with_knowledge_base runs as one synchronous call, so it is
\* served before the call or after it, never between two of its store calls.
ClearKnowledgeBase ==
    /\ run_pc \in {"start", "returned", "raised"}
    /\ kb_items' = <<>>
    /\ UNCHANGED <<extracted_items, kb_add, kb_find, kb_calls, enhanced_matches, run_pc,
                   matchVars, notRun>>

NextMatchRun == AddItems \/ MatchItem \/ ReturnMatches \/ ClearKnowledgeBase

SpecMatchRun == InitMatchRun /\ [][NextMatchRun]_vars

(***************************************************************************)
(* C16                                                                     *)
(***************************************************************************)
\* the entries of the result that are also entries of the extracted item
C16_Carried(r) ==
    [name |-> r.name, part_number |-> r.part_number, category |-> r.category,
     qa_material_name |-> r.qa_material_name, confidence_score |-> r.confidence_score]

\* C16: the call returns one result per extracted item, in input order, and
\* every entry of an item is in its result with the item's own value; the
\* matching only adds entries.
C16_FieldsPreserved ==
    /\ run_pc = "returned" => Len(enhanced_matches) = Len(extracted_items)
    /\ \A k \in 1..Len(enhanced_matches) :
        C16_Carried(enhanced_matches[k]) = extracted_items[k]


(***************************************************************************)
(* C17                                                                     *)
(***************************************************************************)
\* the item's qa_material_name is missing, None or empty
C17_Absent(it) ==
    it.qa_material_name.kind \in {"absent", "null"} \/ it.qa_material_name = JStr(<<>>)

\* the item with its name written into qa_material_name
C17_Named(it) == [it EXCEPT !.qa_material_name = it.name]

\* C17: every result has qa_material_name populated: for an item whose
\* qa_material_name is absent (missing, None or empty) and whose name is
\* a non-empty string, the result's qa_material_name is the item's name,
\* and that name is the one the store was queried with and the supplier
\* rows were scored against.
C17_NamePopulated ==
    \A k \in 1..Len(kb_find) :
        LET it == extracted_items[k]
        IN  (C17_Absent(it) /\ it.name.kind = "str" /\ it.name.s /= <<>>) =>
                /\ k <= Len(enhanced_matches)
                /\ enhanced_matches[k].qa_material_name = it.name
                /\ kb_calls[k + 1].name = it.name
                /\ enhanced_matches[k].supplier_matches =
                        Len(FindSupplierMatches(C17_Named(it), supplier_bom))

(***************************************************************************)
(* C18                                                                     *)
(***************************************************************************)
\* the number of candidates the store gave for the k-th item
C18_KbCount(k) == IF kb_find[k].raises THEN 0 ELSE Len(kb_find[k].found)

\* the number of rows of the table that are candidates for the k-th item
C18_SupplierCount(k) ==
    Cardinality({j \in 1..Len(supplier_bom) :
                    RowConfidence(extracted_items[k], supplier_bom[j]) > Pct(30)})

\* C18: the match_source of a result is "hybrid" exactly when the item has
\* candidates from the store and from the supplier table, "knowledge_base"
\* exactly when only the store gave candidates, "supplier_bom" exactly when
\* only the table gave candidates, and "no_match" exactly when neither did.
C18_MatchSource ==
    \A k \in 1..Len(enhanced_matches) :
        LET source == enhanced_matches[k].match_source
            kb == C18_KbCount(k) > 0
            sup == C18_SupplierCount(k) > 0
        IN  /\ source \in {"hybrid", "knowledge_base", "supplier_bom", "no_match"}
            /\ source = "hybrid" <=> kb /\ sup
            /\ source = "knowledge_base" <=> kb /\ ~sup
            /\ source = "supplier_bom" <=> ~kb /\ sup
            /\ source = "no_match" <=> ~kb /\ ~sup

\* a run has returned a hybrid result and a store-only result
C18_Witness ==
    /\ run_pc = "returned"
    /\ \E j, k \in 1..Len(enhanced_matches) :
        /\ enhanced_matches[j].match_source = "hybrid"
        /\ C18_KbCount(j) > 0 /\ C18_SupplierCount(j) > 0
        /\ enhanced_matches[k].match_source = "knowledge_base"
        /\ C18_SupplierCount(k) = 0

(***************************************************************************)
(* C19                                                                     *)
(***************************************************************************)
\* the k-th item has a part number and a row of the table has the same one
C19_SamePartNumber(k) ==
    LET pn == extracted_items[k].part_number
    IN  /\ pn.kind = "str" /\ pn.s /= <<>>
        /\ \E j \in 1..Len(supplier_bom) : supplier_bom[j].part_number = pn

\* the store gave the k-th item an exact candidate scoring above 0.80
C19_KbExact(k) ==
    /\ ~kb_find[k].raises
    /\ \E j \in 1..Len(kb_find[k].found) :
        /\ kb_find[k].found[j].match_type = "exact"
        /\ kb_find[k].found[j].confidence_score > Pct(80)

\* the result reports a part-number match of the supplier table at 0.95
C19_PartNumberMatch(r) ==
    /\ r.confidence_score = JNum(Pct(95))
    /\ r.reasoning.sentence = "Part number match found in current supplier BOM"
    /\ r.reasoning.percent = 950

\* C19 as stated: an item with a part number, matched against a table that
\* has a row with the identical part number, gets a part-number match with
\* confidence 0.95; its match_source is "supplier_bom" when the store gave
\* no candidate and "hybrid", still with the part-number match at 0.95,
\* when the store gave candidates too.
C19_ExactPartNumberAlways ==
    \A k \in 1..Len(enhanced_matches) :
        C19_SamePartNumber(k) =>
            /\ C19_PartNumberMatch(enhanced_matches[k])
            /\ enhanced_matches[k].match_source =
                    IF C18_KbCount(k) = 0 THEN "supplier_bom" ELSE "hybrid"

\* C19, amended: the match_source is as stated; the part-number match at
\* 0.95 is the result unless the store gave an exact candidate scoring
\* above 0.80, and then the result is that candidate, at its own score
\* capped at 0.95.
C19_ExactPartNumber ==
    \A k \in 1..Len(enhanced_matches) :
        C19_SamePartNumber(k) =>
            /\ enhanced_matches[k].match_source =
                    IF C18_KbCount(k) = 0 THEN "supplier_bom" ELSE "hybrid"
            /\ ~C19_KbExact(k) => C19_PartNumberMatch(enhanced_matches[k])
            /\ C19_KbExact(k) =>
                /\ enhanced_matches[k].reasoning.sentence =
                        "Exact match found in knowledge base from previous workflow"
                /\ \E j \in 1..Len(kb_find[k].found) :
                        enhanced_matches[k].confidence_score =
                            JNum(Min(Pct(95), kb_find[k].found[j].confidence_score))

\* a run has returned a part-number match at 0.95 for an item the store
\* also had (fuzzy) candidates for
C19_Witness ==
    /\ run_pc = "returned"
    /\ \E k \in 1..Len(enhanced_matches) :
        /\ C19_SamePartNumber(k)
        /\ C18_KbCount(k) > 0
        /\ ~C19_KbExact(k)
        /\ enhanced_matches[k].match_source = "hybrid"
        /\ C19_PartNumberMatch(enhanced_matches[k])

(***************************************************************************)
(* C20                                                                     *)
(***************************************************************************)
\* C20: a failure of the store, at add_items or at a query, does not end
\* the call with an exception: the call returns one result per item, and
\* the result of an item whose query failed is the one computed from no
\* store candidate (has_previous_match false, match_source "supplier_bom"
\* or "no_match", the winner taken from the supplier candidates).
C20_StoreFailureTolerated ==
    /\ run_pc = "raised" => MaterialNameValue(item).kind /= "str"
    /\ run_pc = "returned" => Len(enhanced_matches) = Len(extracted_items)
    /\ \A k \in 1..Len(enhanced_matches) :
        kb_find[k].raises =>
            LET r == enhanced_matches[k]
                sup == FindSupplierMatches(extracted_items[k], supplier_bom)
            IN  /\ ~r.has_previous_match
                /\ r.knowledge_base_matches = 0
                /\ r.match_source = IF sup = <<>> THEN "no_match" ELSE "supplier_bom"
                /\ r.confidence_score =
                        JNum(IF sup = <<>> THEN 0 ELSE sup[1].confidence_score)
                /\ r.supplier_part_number =
                        IF sup = <<>> THEN <<>> ELSE sup[1].supplier_part_number

\* a run whose add_items and whose query both failed has returned a result
\* taken from the supplier table
C20_Witness ==
    /\ run_pc = "returned"
    /\ kb_add = "raise"
    /\ kb_calls[1].raised
    /\ \E k \in 1..Len(enhanced_matches) :
        /\ kb_find[k].raises
        /\ enhanced_matches[k].match_source = "supplier_bom"
        /\ enhanced_matches[k].supplier_matches > 0


(***************************************************************************)
(* C21                                                                     *)
(***************************************************************************)
\* the row's part number and the item's are both given and equal once stripped
C21_ExactRow(row) ==
    LET pn == DictGet(item, "part_number", JStr(<<>>))
        sp == DictGet(row, "part_number", JStr(<<>>))
    IN  PyBool(pn) /\ PyBool(sp) /\ Strip(StrOf(pn)) = Strip(StrOf(sp))

\* the row can only be matched by its description: a part number is missing
\* on one side, or neither part number contains the other
C21_DescriptionRow(row) ==
    LET pn == DictGet(item, "part_number", JStr(<<>>))
        sp == DictGet(row, "part_number", JStr(<<>>))
    IN  \/ ~PyBool(pn) \/ ~PyBool(sp)
        \/ /\ ~StrIn(Strip(StrOf(pn)), Strip(StrOf(sp)))
           /\ ~StrIn(Strip(StrOf(sp)), Strip(StrOf(pn)))

C21_InUnit(c) == 0 <= c /\ c <= Pct(100)

\* C21: every confidence the matcher computes or reports is within [0, 1]
\* (the store's scores being within [0, 1]), and among the supplier
\* candidates of one item a row matched by exact part number comes before
\* every row matched by description similarity only.
C21_ScoreBounds ==
    /\ \A k \in 1..Len(kb_matches) : C21_InUnit(kb_matches[k].confidence_score)
    /\ \A k \in 1..Len(supplier_matches) : C21_InUnit(supplier_matches[k].confidence_score)
    /\ match_pc = "selected" => C21_InUnit(best_match.confidence_score)
    /\ \A i, j \in 1..Len(supplier_matches) :
        (/\ C21_ExactRow(supplier_matches[i].supplier_data)
         /\ C21_DescriptionRow(supplier_matches[j].supplier_data)) => i < j

\* a description row that stands before an exact row in the table is
\* ranked after it, and the store's score 1.0 is reported as 0.95
C21_Witness ==
    /\ match_pc = "selected"
    /\ Len(supplier_bom) = 2 /\ Len(supplier_matches) = 2
    /\ C21_DescriptionRow(supplier_bom[1]) /\ C21_ExactRow(supplier_bom[2])
    /\ supplier_matches[1].supplier_data = supplier_bom[2]
    /\ supplier_matches[2].confidence_score = Pct(85)
    /\ \E k \in 1..Len(kb_matches) : kb_matches[k].confidence_score = Pct(100)
    /\ best_match.confidence_score = Pct(95)


(***************************************************************************)
(* C22                                                                     *)
(***************************************************************************)
\* the source a reasoning sentence names
C22_NamedSource(sentence) ==
    CASE sentence \in {"Exact match found in knowledge base from previous workflow",
                       "Similar item found in knowledge base based on name similarity"}
            -> "knowledge_base"
      [] sentence \in {"Part number match found in current supplier BOM",
                       "Description match found in current supplier BOM"}
            -> "supplier_bom"
      [] sentence = "Low confidence match found in supplier BOM - requires review"
            -> "supplier_bom_low_confidence"
      [] OTHER -> "none"

\* the match type a reasoning sentence names
C22_NamedType(sentence) ==
    CASE sentence = "Exact match found in knowledge base from previous workflow" -> "exact"
      [] sentence = "Similar item found in knowledge base based on name similarity" -> "fuzzy"
      [] sentence = "Part number match found in current supplier BOM" -> "part_number"
      [] sentence = "Description match found in current supplier BOM" -> "description"
      [] OTHER -> "none"

\* the loop has just appended the result of the item its locals belong to
C22_JustMatched == run_pc \in {"loop", "returned"} /\ enhanced_matches /= <<>>

C22_Reasoning == enhanced_matches[Len(enhanced_matches)].reasoning

\* the two sentences for a result without a winner
C22_NoWinnerSentences ==
    /\ C22_Reasoning.sentence = "No matches found in knowledge base or supplier BOM"
            <=> (kb_matches = <<>> /\ supplier_matches = <<>>)
    /\ C22_Reasoning.sentence = "Matches found but confidence scores below minimum threshold"
            <=> ((kb_matches /= <<>> \/ supplier_matches /= <<>>) /\ best_match.empty)

\* C22 as stated: the reasoning says that no matches were found exactly
\* when neither the store nor the table gave a candidate, says that matches
\* were found below the thresholds exactly when a candidate existed and no
\* winner was selected, and for every winner names the winner's source,
\* its match type and its confidence as a percentage.
C22_ReasoningNamesType ==
    C22_JustMatched =>
        /\ C22_NoWinnerSentences
        /\ ~best_match.empty =>
            /\ C22_NamedSource(C22_Reasoning.sentence) = best_match.match_source
            /\ C22_NamedType(C22_Reasoning.sentence) = best_match.match_type
            /\ C22_Reasoning.percent * 84 = best_match.confidence_score

\* C22, amended: as stated, except that the sentence of a low-confidence
\* supplier winner names the source and the percentage and no match type.
C22_ReasoningNamesWinner ==
    C22_JustMatched =>
        /\ C22_NoWinnerSentences
        /\ ~best_match.empty =>
            /\ C22_NamedSource(C22_Reasoning.sentence) = best_match.match_source
            /\ C22_Reasoning.percent * 84 = best_match.confidence_score
            /\ C22_NamedType(C22_Reasoning.sentence) =
                    IF best_match.match_source = "supplier_bom_low_confidence" THEN "none"
                    ELSE best_match.match_type

\* the store gave a candidate, no winner was selected, and the reasoning
\* says that matches were found below the threshold
C22_Witness ==
    /\ C22_JustMatched
    /\ kb_matches /= <<>> /\ supplier_matches = <<>> /\ best_match.empty
    /\ C22_Reasoning.sentence = "Matches found but confidence scores below minimum threshold"


(***************************************************************************)
(* C23                                                                     *)
(***************************************************************************)
\* the scoring path of lines 91-108 that gives a row its score
C23_Path(row) ==
    IF C21_ExactRow(row) THEN "exact"
    ELSE IF C21_DescriptionRow(row) THEN "description"
    ELSE "partial"

\* C23: the match_type of a supplier candidate identifies the scoring
\* path of its score: exact part-number equality, part-number containment
\* (a partial part-number match, 0.80) or word overlap of the descriptions;
\* the reasoning of a supplier winner names that same type.
C23_TypeIdentifiesPath ==
    /\ \A k \in 1..Len(supplier_matches) :
        LET m == supplier_matches[k]
            path == C23_Path(m.supplier_data)
        IN  /\ path = "exact" => m.match_type = "part_number"
            /\ path = "description" => m.match_type = "description"
            /\ path = "partial" => m.match_type \notin {"part_number", "description"}
    /\ (C22_JustMatched /\ ~best_match.empty /\ best_match.match_source = "supplier_bom") =>
            C22_NamedType(C22_Reasoning.sentence) = best_match.match_type


(***************************************************************************)
(* Supplier ingestion: SupplierBOMAgent._extract_bom_items                 *)
(*                                                                         *)
(* The table is a list of column names and a list of rows, a row holding   *)
(* one cell per column.  An empty cell of a file is read as NaN (JNull).   *)
(***************************************************************************)
\* column_mappings (lines 65-72)
ColumnMappings ==
    [description |-> {"description", "item_description", "product_name", "name"},
     part_number |-> {"part_number", "part_no", "item_code", "sku"},
     quantity |-> {"quantity", "qty", "amount"},
     unit_price |-> {"unit_price", "price", "cost"},
     supplier_name |-> {"supplier", "vendor", "manufacturer"},
     category |-> {"category", "type", "class"}]

\* col_name.lower(), for the column names of the model
LowerName(c) ==
    CASE c = "Description" -> "description"
      [] c = "NAME" -> "name"
      [] c = "SKU" -> "sku"
      [] OTHER -> c

\* actual_columns.get(field): the first column of the table whose name is
\* one of the field's names (0: the field has no column)
ActualColumn(cols, field) ==
    LET hits == {i \in 1..Len(cols) : LowerName(cols[i]) \in ColumnMappings[field]}
    IN  IF hits = {} THEN 0 ELSE CHOOSE i \in hits : \A j \in hits : i <= j

\* row.get(actual_columns.get(field, ''), default)
RowGet(cols, row, field, default) ==
    IF ActualColumn(cols, field) = 0 THEN default ELSE row[ActualColumn(cols, field)]

\* str(cell): the text 'nan' for an empty cell
CellStr(v) == IF v.kind = "str" THEN v.s ELSE <<"n", "a", "n">>

\* SupplierBOMAgent._safe_float
SafeFloat(v) ==
    IF v.kind = "null" THEN 0
    ELSE IF FloatOf(v).ok THEN FloatOf(v).val
    ELSE 0

\* the dict of lines 84-91 for one row
BomItem(cols, row) ==
    [description |-> CellStr(RowGet(cols, row, "description", JStr(<<>>))),
     part_number |-> CellStr(RowGet(cols, row, "part_number", JStr(<<>>))),
     quantity |-> SafeFloat(RowGet(cols, row, "quantity", JNum(0))),
     unit_price |-> SafeFloat(RowGet(cols, row, "unit_price", JNum(0))),
     supplier_name |-> CellStr(RowGet(cols, row, "supplier_name", JStr(<<>>))),
     category |-> CellStr(RowGet(cols, row, "category", JStr(<<>>)))]

RECURSIVE ExtractRows(_, _)
\* the loop of lines 83-95
ExtractRows(cols, rows) ==
    IF rows = <<>> THEN <<>>
    ELSE (IF Strip(BomItem(cols, Head(rows)).description) /= <<>>
            THEN <<BomItem(cols, Head(rows))>> ELSE <<>>)
         \o ExtractRows(cols, Tail(rows))

\* SupplierBOMAgent._extract_bom_items
ExtractBomItems(table) == ExtractRows(table.columns, table.rows)

\* the most rows of a table handed to _extract_bom_items
MaxTableRows == 2

\* Column headers: plain, in another case and under other names, two
\* description columns, no description column.
IngestColumns ==
    {<<"description", "part_number">>,
     <<"NAME", "qty">>,
     <<"SKU", "Description">>,
     <<"name", "description">>,
     <<"part_number", "notes">>}

\* Cells: empty (NaN), the empty string, a blank, texts
IngestCells == {JNull, JStr(<<>>), JStr(<<" ">>), JStr(<<"a">>), JStr(<<"4">>)}

InitIngest ==
    /\ df \in {[columns |-> c, rows |-> r] :
                c \in IngestColumns,
                r \in SeqsUpTo([1..2 -> IngestCells], MaxTableRows)}
    /\ bom_items = <<>>
    /\ ingest_pc = "start"
    /\ IdleClassify /\ IdleMatch /\ IdleChunk /\ IdleDedup /\ IdleExtract /\ IdleParse
    /\ IdleBuild /\ IdleRun /\ IdleAgent /\ IdleUpload /\ IdleDist

\* items = self._extract_bom_items(df)
ExtractItems ==
    /\ ingest_pc = "start"
    /\ bom_items' = ExtractBomItems(df)
    /\ ingest_pc' = "extracted"
    /\ UNCHANGED <<df, notIngest>>

NextIngest == ExtractItems

SpecIngest == InitIngest /\ [][NextIngest]_vars

(***************************************************************************)
(* C24                                                                     *)
(***************************************************************************)
\* the description cell of a row: JAbsent when the table has no description
\* column
C24_Description(row) == RowGet(df.columns, row, "description", JAbsent)

\* the row has a description that is not blank
C24_HasDescription(row) ==
    C24_Description(row).kind = "str" /\ Strip(C24_Description(row).s) /= <<>>

RECURSIVE C24_Keep(_)
\* the rows with a description, in table order
C24_Keep(rows) ==
    IF rows = <<>> THEN <<>>
    ELSE (IF C24_HasDescription(Head(rows)) THEN <<Head(rows)>> ELSE <<>>)
         \o C24_Keep(Tail(rows))

\* C24: the list returned by _extract_bom_items holds exactly the rows of
\* the table that have a non-blank description, in table order: a row
\* whose description cell is missing, null or blank is never in it.
C24_DescribedRowsKept ==
    ingest_pc = "extracted" =>
        LET kept == C24_Keep(df.rows)
        IN  /\ Len(bom_items) = Len(kept)
            /\ \A k \in 1..Len(bom_items) :
                bom_items[k] = BomItem(df.columns, kept[k])


(***************************************************************************)
(* The confidence distribution of a list of materials                      *)
(***************************************************************************)
\* Scores at the bucket bounds, one unit (1/84000) below them, and at the
\* ends of [0, 1].
DistributionScores == {0, Pct(60) - 1, Pct(60), Pct(80) - 1, Pct(80), Pct(100)}

DistributionMaterials ==
    {Material(<<"a">>, JNull, c, 13, "low", "red") : c \in DistributionScores}

InitDistribution ==
    /\ materials \in SeqsUpTo(DistributionMaterials, MaxMaterials)
    /\ unique_materials = <<>>
    /\ unique_again = <<>>
    /\ dedup_pc = "idle"
    /\ confidence_distribution = <<>>
    /\ distribution_pc = "start"
    /\ IdleClassify /\ IdleMatch /\ IdleChunk /\ IdleExtract /\ IdleParse
    /\ IdleBuild /\ IdleRun /\ IdleIngest /\ IdleAgent /\ IdleUpload

\* self._calculate_confidence_distribution(materials)
CountConfidence ==
    /\ distribution_pc = "start"
    /\ confidence_distribution' = CalculateConfidenceDistribution(materials)
    /\ distribution_pc' = "counted"
    /\ UNCHANGED <<dedupVars, notDist>>

NextDistribution == CountConfidence

SpecDistribution == InitDistribution /\ [][NextDistribution]_vars

(***************************************************************************)
(* C25                                                                     *)
(***************************************************************************)
\* the bucket of a score
C25_Bucket(score) ==
    IF score >= Pct(80) THEN "high"
    ELSE IF score >= Pct(60) THEN "medium"
    ELSE "low"

C25_Count(bucket) ==
    Cardinality({k \in 1..Len(materials) :
                    C25_Bucket(materials[k].confidence_score) = bucket})

\* C25: _calculate_confidence_distribution counts every item in exactly
\* one bucket, high for a score of at least 0.8, medium for a score of at
\* least 0.6 and below 0.8, low otherwise; the three counts add up to the
\* number of items.
C25_Buckets ==
    distribution_pc = "counted" =>
        /\ confidence_distribution.high = C25_Count("high")
        /\ confidence_distribution.medium = C25_Count("medium")
        /\ confidence_distribution.low = C25_Count("low")
        /\ confidence_distribution.high + confidence_distribution.medium
                + confidence_distribution.low = Len(materials)

\* the list of a score of 0.80, a score just below 0.80 and a score just
\* below 0.60 is counted as one high, one medium and one low
C25_Witness ==
    /\ distribution_pc = "counted"
    /\ Len(materials) = 3
    /\ materials[1].confidence_score = Pct(80)
    /\ materials[2].confidence_score = Pct(80) - 1
    /\ materials[3].confidence_score = Pct(60) - 1
    /\ confidence_distribution = [high |-> 1, medium |-> 1, low |-> 1]


(***************************************************************************)
(* C26                                                                     *)
(***************************************************************************)
\* C26: the quantity test of the classification agrees with the quantity
\* the item stores: a consumable item with a part number is labelled 1 or
\* 2 exactly when its stored quantity is present, and 3 exactly when its
\* stored quantity is absent.
C26_QuantityAgrees ==
    \A k \in 1..Len(built_materials) :
        LET mat == built_materials[k]
        IN  (mat.consumable_jigs_tools /\ PyBool(mat.part_number)) =>
                /\ mat.classification_label \in {1, 2} <=> mat.quantity.kind /= "null"
                /\ mat.classification_label = 3 <=> mat.quantity.kind = "null"


(***************************************************************************)
(* Runs of process_translated_content on one coordinator instance          *)
(*                                                                         *)
(* The orchestrator holds one ExtractionAgent, and every workflow calls    *)
(* its process_translated_content.  A run is suspended only at the gather  *)
(* of its chunk calls; what it merges is abstracted to the number of       *)
(* chunks and the number of unique materials.                              *)
(***************************************************************************)
\* lines 74-76: self.stats after a run that reached the merge
StatsAfterRun(st, n_materials, n_chunks) ==
    [st EXCEPT !.extractions_performed = @ + 1,
               !.materials_extracted = @ + n_materials,
               !.chunks_processed = @ + n_chunks]

\* line 93: self.stats after a run that ended in the except branch
StatsAfterError(st) == [st EXCEPT !.errors = @ + 1]

\* the most runs on one instance
MaxRuns == 2

\* a run: a body of n_chunks chunks that gives n_materials unique
\* materials, or a body that is not a string (bad)
AgentRun(bad, n_chunks, n_materials) ==
    [bad |-> bad, n_chunks |-> n_chunks, n_materials |-> n_materials,
     pc |-> "created", pending |-> 0, processing_stats |-> InitialStats]

AgentRunInputs ==
    {AgentRun(FALSE, c, n) : c \in 1..2, n \in 1..2} \cup {AgentRun(TRUE, 0, 0)}

InitSharedAgent ==
    /\ agent_stats = InitialStats
    /\ agent_runs \in [1..MaxRuns -> AgentRunInputs]
    /\ IdleClassify /\ IdleMatch /\ IdleChunk /\ IdleDedup /\ IdleExtract /\ IdleParse
    /\ IdleBuild /\ IdleRun /\ IdleIngest /\ IdleUpload /\ IdleDist

\* A run starts and goes to its first suspension (lines 27-47), or to its
\* end when the body is not a string (lines 92-109).
BeginRun(r) ==
    /\ agent_runs[r].pc = "created"
    /\ IF agent_runs[r].bad
        THEN /\ agent_stats' = StatsAfterError(agent_stats)
             /\ agent_runs' = [agent_runs EXCEPT ![r].pc = "done",
                                                 ![r].processing_stats = agent_stats']
        ELSE /\ agent_runs' = [agent_runs EXCEPT ![r].pc = "gathering",
                                                 ![r].pending = agent_runs[r].n_chunks]
             /\ UNCHANGED agent_stats
    /\ UNCHANGED notAgent

\* one of the run's chunk calls completes
ChunkReturns(r) ==
    /\ agent_runs[r].pc = "gathering"
    /\ agent_runs[r].pending > 0
    /\ agent_runs' = [agent_runs EXCEPT ![r].pending = @ - 1]
    /\ UNCHANGED <<agent_stats, notAgent>>

\* gather returns and the run goes to its end (lines 47-90)
FinishRun(r) ==
    /\ agent_runs[r].pc = "gathering"
    /\ agent_runs[r].pending = 0
    /\ agent_stats' = StatsAfterRun(agent_stats, agent_runs[r].n_materials,
                                    agent_runs[r].n_chunks)
    /\ agent_runs' = [agent_runs EXCEPT ![r].pc = "done",
                                        ![r].processing_stats = agent_stats']
    /\ UNCHANGED notAgent

NextSharedAgent ==
    \E r \in 1..MaxRuns : BeginRun(r) \/ ChunkReturns(r) \/ FinishRun(r)

SpecSharedAgent == InitSharedAgent /\ [][NextSharedAgent]_vars

(***************************************************************************)
(* C27                                                                     *)
(***************************************************************************)
\* the statistics of one run counted alone
C27_OwnStats(run) ==
    IF run.bad THEN StatsAfterError(InitialStats)
    ELSE StatsAfterRun(InitialStats, run.n_materials, run.n_chunks)

\* C27: the processing statistics a run reports count that run's chunks,
\* items and errors only, whatever other runs the same instance has made
\* or is making.
C27_StatsPerRun ==
    \A r \in DOMAIN agent_runs :
        agent_runs[r].pc = "done" =>
            agent_runs[r].processing_stats = C27_OwnStats(agent_runs[r])


(***************************************************************************)
(* C28                                                                     *)
(***************************************************************************)
\* the flags each item of _create_demo_materials_chunk_enhanced is built
\* with, in the order of DemoMaterials (fields not passed take the defaults
\* of the ExtractedMaterial schema)
DemoMaterialData ==
    <<[consumable_jigs_tools |-> JBool(TRUE), part_number |-> DemoMaterials[1].part_number,
       quantity |-> JNum(4), specifications |-> JDict(3), vendor_name |-> JNull,
       kit_available |-> JBool(FALSE), pn_mismatch |-> JBool(FALSE),
       obsolete_pn |-> JBool(FALSE)],
      [consumable_jigs_tools |-> JBool(TRUE), part_number |-> DemoMaterials[2].part_number,
       quantity |-> JNum(2), specifications |-> JDict(3), vendor_name |-> JNull,
       kit_available |-> JBool(FALSE), pn_mismatch |-> JBool(FALSE),
       obsolete_pn |-> JBool(FALSE)],
      [consumable_jigs_tools |-> JBool(TRUE), part_number |-> DemoMaterials[3].part_number,
       quantity |-> JNum(1), specifications |-> JDict(2), vendor_name |-> JNull,
       kit_available |-> JBool(FALSE), pn_mismatch |-> JBool(FALSE),
       obsolete_pn |-> JBool(FALSE)]>>

\* the classification an item carries
C28_Carried(mat) ==
    Triple(mat.classification_label, mat.confidence_level, mat.action_path_rag)

\* C28: every item of the demo set a run returns carries the classification
\* _classify_material yields for the item's own flags (label 1 / high /
\* green for a consumable with part number, quantity and specifications).
C28_DemoClassified ==
    (extract_pc = "done" /\ result.demo_mode) =>
        /\ Len(result.materials) = Len(DemoMaterialData)
        /\ \A k \in 1..Len(result.materials) :
            C28_Carried(result.materials[k]) = ClassifyMaterial(DemoMaterialData[k])


(***************************************************************************)
(* C29                                                                     *)
(***************************************************************************)
\* C29: in one matching run the store receives add_items exactly once, as
\* the first call of the run, and every later call is a find_similar_items
\* query; when add_items returned, the store holds the whole batch for as
\* long as the run is in its loop, so at every query of the run (the store
\* may be cleared before the run and after it).
C29_RegisteredFirst ==
    /\ run_pc = "start" => kb_calls = <<>>
    /\ run_pc \in {"loop", "returned", "raised"} =>
        /\ kb_calls /= <<>>
        /\ kb_calls[1].op = "add_items"
        /\ \A k \in 2..Len(kb_calls) : kb_calls[k].op = "find_similar_items"
    /\ (run_pc = "loop" /\ ~kb_calls[1].raised) => kb_items = extracted_items

\* a run of two items whose batch was registered and whose two queries
\* followed
C29_Witness ==
    /\ run_pc = "returned"
    /\ Len(extracted_items) = 2
    /\ Len(kb_calls) = 3
    /\ ~kb_calls[1].raised
    /\ kb_calls[3].op = "find_similar_items"
    /\ kb_items = extracted_items


(***************************************************************************)
(* Upload requests and their background tasks (routers/autonomous.py)      *)
(*                                                                         *)
(* Every request saves its two files under uploads/<client file name> and  *)
(* queues a background task with the two paths.  A handler is suspended at *)
(* the await of each UploadFile.read(), between the open that truncates    *)
(* the file and the write; a task hands the first path to the document     *)
(* reader, and after other awaits the second to the supplier table agent;  *)
(* each opens the file only when the name has a suffix it supports.  A     *)
(* file is a sequence of bytes, each byte tagged with the request and the  *)
(* part it was uploaded as.                                                *)
(***************************************************************************)
\* the most concurrent requests
MaxRequests == 2

\* the most bytes of an uploaded file
MaxBytes == 2

\* a client file name (lower case): Path(name).suffix is its suffix
FileName(stem, suffix) == [stem |-> stem, suffix |-> suffix]

\* the file names clients send; the two files of one request have
\* different names
FileNames == {FileName("wi", ".txt"), FileName("wi", ".pdf"), FileName("bom", ".xlsx")}

\* what a task has got from a path: whether the file was opened, and the
\* bytes read
NotOpened == [opened |-> FALSE, data |-> <<>>]

\* DocumentReader.read_document, called by process_document: the file is
\* opened for .txt and .docx, and for every other suffix the built-in demo
\* text is returned without a read
ReadDocument(folder, fname) ==
    IF fname.suffix \in {".txt", ".docx"}
        THEN [opened |-> TRUE, data |-> folder[fname]]
    ELSE NotOpened

\* process_supplier_bom, lines 24-29: the file is read for .xlsx, .xls and
\* .csv, and for every other name the demo items are returned without a read
ReadSupplierFile(folder, fname) ==
    IF fname.suffix \in {".xlsx", ".xls", ".csv"}
        THEN [opened |-> TRUE, data |-> folder[fname]]
    ELSE NotOpened

\* the n bytes request r uploads as the given part
UploadContent(r, part, n) == [k \in 1..n |-> [request |-> r, part |-> part]]

\* open(path, "wb"): the file exists and is empty
OpenTruncate(folder, fname) == [folder EXCEPT ![fname] = <<>>]

\* f.write(content) and the close of the with block, on a descriptor at
\* offset 0: the bytes replace the start of whatever the file holds by now
WriteAtStart(folder, fname, data) ==
    [folder EXCEPT ![fname] = data \o SubSeq(@, Len(data) + 1, Len(@))]

InitUpload ==
    /\ upload_requests \in [1..MaxRequests ->
            {q \in [wi_name : FileNames, item_name : FileNames,
                    wi_len : 1..MaxBytes, item_len : 1..MaxBytes] :
                q.wi_name /= q.item_name}]
    /\ upload_dir = [f \in FileNames |-> <<>>]
    /\ upload_pc = [r \in 1..MaxRequests |-> "received"]
    /\ upload_read = [r \in 1..MaxRequests |-> [wi |-> NotOpened, item |-> NotOpened]]
    /\ IdleClassify /\ IdleMatch /\ IdleChunk /\ IdleDedup /\ IdleExtract /\ IdleParse
    /\ IdleBuild /\ IdleRun /\ IdleIngest /\ IdleAgent /\ IdleDist

\* what request r uploaded
UploadedWi(r) == UploadContent(r, "wi", upload_requests[r].wi_len)
UploadedItem(r) == UploadContent(r, "item", upload_requests[r].item_len)

\* lines 46-69: the handler up to the await of wi_document.read()
OpenWi(r) ==
    /\ upload_pc[r] = "received"
    /\ upload_dir' = OpenTruncate(upload_dir, upload_requests[r].wi_name)
    /\ upload_pc' = [upload_pc EXCEPT ![r] = "wi_open"]
    /\ UNCHANGED <<upload_requests, upload_read, notUpload>>

\* lines 69-73: the first file is written and closed, the second opened, up
\* to the await of item_master.read()
SaveWiOpenItem(r) ==
    /\ upload_pc[r] = "wi_open"
    /\ upload_dir' = OpenTruncate(
            WriteAtStart(upload_dir, upload_requests[r].wi_name, UploadedWi(r)),
            upload_requests[r].item_name)
    /\ upload_pc' = [upload_pc EXCEPT ![r] = "item_open"]
    /\ UNCHANGED <<upload_requests, upload_read, notUpload>>

\* lines 73-92: the second file is written and closed, the task queued and
\* the response returned
SaveItemQueue(r) ==
    /\ upload_pc[r] = "item_open"
    /\ upload_dir' = WriteAtStart(upload_dir, upload_requests[r].item_name, UploadedItem(r))
    /\ upload_pc' = [upload_pc EXCEPT ![r] = "queued"]
    /\ UNCHANGED <<upload_requests, upload_read, notUpload>>

\* process_workflow_background: the translation stage is given wi_path
ReadWi(r) ==
    /\ upload_pc[r] = "queued"
    /\ upload_read' = [upload_read EXCEPT
            ![r].wi = ReadDocument(upload_dir, upload_requests[r].wi_name)]
    /\ upload_pc' = [upload_pc EXCEPT ![r] = "wi_read"]
    /\ UNCHANGED <<upload_requests, upload_dir, notUpload>>

\* process_workflow_background: later, the supplier stage is given item_path
ReadItem(r) ==
    /\ upload_pc[r] = "wi_read"
    /\ upload_read' = [upload_read EXCEPT
            ![r].item = ReadSupplierFile(upload_dir, upload_requests[r].item_name)]
    /\ upload_pc' = [upload_pc EXCEPT ![r] = "processed"]
    /\ UNCHANGED <<upload_requests, upload_dir, notUpload>>

NextUpload ==
    \E r \in 1..MaxRequests :
        OpenWi(r) \/ SaveWiOpenItem(r) \/ SaveItemQueue(r) \/ ReadWi(r) \/ ReadItem(r)

SpecUpload == InitUpload /\ [][NextUpload]_vars

(***************************************************************************)
(* C30                                                                     *)
(***************************************************************************)
\* C30: what a workflow's background task reads at a path it was given
\* (when it opens the file at all) is what the workflow's own request
\* uploaded, for every interleaving of requests and tasks and every choice
\* of file names.
C30_OwnContentRead ==
    \A r \in DOMAIN upload_pc :
        /\ (upload_pc[r] \in {"wi_read", "processed"} /\ upload_read[r].wi.opened) =>
                upload_read[r].wi.data = UploadedWi(r)
        /\ (upload_pc[r] = "processed" /\ upload_read[r].item.opened) =>
                upload_read[r].item.data = UploadedItem(r)

====
